---- MODULE Spec2Model ----
(***************************************************************************)
(* Masked convolution and masked-cell interpolation of pymsastro:          *)
(*   pymsastro/convolution/convolution_with_mask.py                        *)
(*   pymsastro/convolution/interpolate_mask.py                             *)
(*                                                                         *)
(* Both functions are pure.  The state is one set of call arguments        *)
(* (array, kernel, mask), drawn by Init from bounded families, and the     *)
(* outcome of the last call made on them; frame holds the local arrays of  *)
(* a routine while its loop over the output cells is followed cell by      *)
(* cell.  Cell values are exact                                            *)
(* rationals <<n, d>> (d > 0, lowest terms); NaN is <<0, 0>>.  Python      *)
(* indices are kept 0-based.                                               *)
(***************************************************************************)
EXTENDS Integers, Sequences, FiniteSets, TLC

VARIABLES array, kernel, mask, nancast, outcome, frame

vars == <<array, kernel, mask, nancast, outcome, frame>>

(***************************************************************************)
(* Bounds of the model.                                                    *)
(***************************************************************************)
\* general family: 1-D and 2-D grids of at most MaxCells cells
MaxCells == 3
\* general family: 3-D grids of at most MaxCells3 cells
MaxCells3 == 2
\* gap family: 1-D grids of length 1..MaxLen
MaxLen == 7
\* gap family: the mask is one run of at most MaxRun consecutive cells
MaxRun == 3
\* plane family: 2-D grids with sides 1..MaxSide
MaxSide == 3
\* shape family: arrays of 0..MaxNdim axes, each of one length 1..MaxAxis
MaxNdim == 4
MaxAxis == 2

\* loop family: grids of at most MaxLoopCells cells
MaxLoopCells == 3

\* general and plane family: the lengths of a kernel axis
KernelLens == {1, 3}
\* gap family: the lengths of an all-ones kernel
OnesLens == {1, 3, 5}
\* values stored in the cells of the input grids
ArrayVals == {-1, 2}
\* kernel weights are KBase + KStep * (rank of the cell), see Kernels
KBase == {-1, 1}
KStep == {0, 1}

(***************************************************************************)
(* Python / numpy values.                                                  *)
(***************************************************************************)
None == [type |-> "NoneType"]

Max(a, b) == IF a >= b THEN a ELSE b
Min(a, b) == IF a <= b THEN a ELSE b
Abs(a) == IF a < 0 THEN -a ELSE a

\* range(a, b, 1)
Range(a, b) == a .. (b - 1)

RECURSIVE Gcd(_, _)
Gcd(a, b) == IF b = 0 THEN a ELSE Gcd(b, a % b)

NaN == <<0, 0>>

\* the float holding the integer n
Float(n) == <<n, 1>>

\* num / div on floats, div # 0
Div(num, div) ==
    LET g == Gcd(Abs(num), Abs(div))
        s == IF div < 0 THEN -1 ELSE 1
    IN  <<(s * num) \div g, (s * div) \div g>>

\* a * b on floats; NaN propagates
Mul(a, b) ==
    IF a = NaN \/ b = NaN THEN NaN ELSE Div(a[1] * b[1], a[2] * b[2])

\* conversion of a float to a signed integer: truncation toward zero
Trunc(v) == IF v[1] >= 0 THEN v[1] \div v[2] ELSE -((-v[1]) \div v[2])

\* sum of f[lo], .., f[hi-1]: one accumulating loop over range(lo, hi)
RECURSIVE SumRange(_, _, _)
SumRange(f, lo, hi) == IF lo >= hi THEN 0 ELSE f[lo] + SumRange(f, lo + 1, hi)

(***************************************************************************)
(* numpy arrays: [shape, dtype, data], data a function on the index set.   *)
(* A masked array carries one more field, mask.                            *)
(***************************************************************************)
RECURSIVE SeqMax(_)
SeqMax(s) == IF s = <<>> THEN 0 ELSE Max(Head(s), SeqMax(Tail(s)))

\* the index set of an array of the given shape; 1-D arrays are indexed by
\* integers, the others by tuples
Idx(shape) ==
    CASE Len(shape) = 0 -> {<<>>}
      [] Len(shape) = 1 -> Range(0, shape[1])
      [] Len(shape) = 2 -> Range(0, shape[1]) \X Range(0, shape[2])
      [] Len(shape) = 3 ->
            Range(0, shape[1]) \X Range(0, shape[2]) \X Range(0, shape[3])
      [] OTHER -> {c \in [1 .. Len(shape) -> Range(0, SeqMax(shape))] :
                     \A a \in 1 .. Len(shape) : c[a] < shape[a]}

ndim(a) == Len(a.shape)

hasattr_mask(a) == "mask" \in DOMAIN a

\* array.data of a masked array
data_of(a) == [shape |-> a.shape, dtype |-> a.dtype, data |-> a.data]

\* zeros_bool that builds the mask with np.ones
zeros_bool_ones(shape) ==
    [shape |-> shape, dtype |-> "bool", data |-> [c \in Idx(shape) |-> 1]]

\* np.zeros(shape, dtype=np.bool_)
zeros_bool(shape) ==
    [shape |-> shape, dtype |-> "bool", data |-> [c \in Idx(shape) |-> 0]]

\* np.sum(kernel)
RECURSIVE SumSet(_, _)
SumSet(f, S) ==
    IF S = {} THEN 0
    ELSE LET c == CHOOSE c \in S : TRUE IN f[c] + SumSet(f, S \ {c})

np_sum(a) == SumSet(a.data, DOMAIN a.data)

\* np.zeros_like(image)[...] = v: the value is converted to the dtype of image
Store(dtype, v, nc) ==
    IF dtype = "float64" THEN v
    ELSE IF v = NaN THEN Float(nc) ELSE Float(Trunc(v))

(***************************************************************************)
(* convolution_with_mask.py                                                *)
(***************************************************************************)
\* convolve_with_mask_1d that leaves the zero of np.zeros_like in a cell whose
\* div is 0
convolve_with_mask_1d_zero(image, kern, msk, nc) ==
    LET nx == image.shape[1]
        nkx == kern.shape[1]
        wkx == nkx \div 2
        cell(i) ==
            LET iimin == Max(i - wkx, 0)
                iimax == Min(i + wkx + 1, nx)
                num == SumRange([ii \in Range(iimin, iimax) |->
                          IF msk.data[ii] = 0
                          THEN kern.data[wkx + ii - i] * image.data[ii]
                          ELSE 0], iimin, iimax)
                div == SumRange([ii \in Range(iimin, iimax) |->
                          IF msk.data[ii] = 0
                          THEN kern.data[wkx + ii - i]
                          ELSE 0], iimin, iimax)
            IN  IF div = 0 THEN Float(0) ELSE Div(num, div)
    IN  [shape |-> image.shape, dtype |-> image.dtype,
         data |-> [i \in Range(0, nx) |-> Store(image.dtype, cell(i), nc)]]

\* convolve_with_mask_1d that divides by the weights of the whole kernel, as
\* if the grid were padded with zeros
convolve_with_mask_1d_padded(image, kern, msk, nc) ==
    LET nx == image.shape[1]
        nkx == kern.shape[1]
        wkx == nkx \div 2
        cell(i) ==
            LET iimin == Max(i - wkx, 0)
                iimax == Min(i + wkx + 1, nx)
                num == SumRange([ii \in Range(iimin, iimax) |->
                          IF msk.data[ii] = 0
                          THEN kern.data[wkx + ii - i] * image.data[ii]
                          ELSE 0], iimin, iimax)
                div == SumRange([ii \in Range(i - wkx, i + wkx + 1) |->
                          IF ii < 0 \/ ii >= nx \/ msk.data[ii] = 0
                          THEN kern.data[wkx + ii - i]
                          ELSE 0], i - wkx, i + wkx + 1)
            IN  IF div = 0 THEN NaN ELSE Div(num, div)
    IN  [shape |-> image.shape, dtype |-> image.dtype,
         data |-> [i \in Range(0, nx) |-> Store(image.dtype, cell(i), nc)]]

\* convolve_with_mask_1d that does not look at the mask
convolve_with_mask_1d_unmasked(image, kern, msk, nc) ==
    LET nx == image.shape[1]
        nkx == kern.shape[1]
        wkx == nkx \div 2
        cell(i) ==
            LET iimin == Max(i - wkx, 0)
                iimax == Min(i + wkx + 1, nx)
                num == SumRange([ii \in Range(iimin, iimax) |->
                          IF TRUE
                          THEN kern.data[wkx + ii - i] * image.data[ii]
                          ELSE 0], iimin, iimax)
                div == SumRange([ii \in Range(iimin, iimax) |->
                          IF TRUE
                          THEN kern.data[wkx + ii - i]
                          ELSE 0], iimin, iimax)
            IN  IF div = 0 THEN NaN ELSE Div(num, div)
    IN  [shape |-> image.shape, dtype |-> image.dtype,
         data |-> [i \in Range(0, nx) |-> Store(image.dtype, cell(i), nc)]]

\* convolve_with_mask_1d that returns only the cells whose whole window lies
\* in the grid
convolve_with_mask_1d_valid(image, kern, msk, nc) ==
    LET nx == image.shape[1]
        nkx == kern.shape[1]
        wkx == nkx \div 2
        cell(i) ==
            LET iimin == Max(i - wkx, 0)
                iimax == Min(i + wkx + 1, nx)
                num == SumRange([ii \in Range(iimin, iimax) |->
                          IF msk.data[ii] = 0
                          THEN kern.data[wkx + ii - i] * image.data[ii]
                          ELSE 0], iimin, iimax)
                div == SumRange([ii \in Range(iimin, iimax) |->
                          IF msk.data[ii] = 0
                          THEN kern.data[wkx + ii - i]
                          ELSE 0], iimin, iimax)
            IN  IF div = 0 THEN NaN ELSE Div(num, div)
    IN  [shape |-> <<Max(nx - 2 * wkx, 0)>>, dtype |-> image.dtype,
         data |-> [i \in Range(0, Max(nx - 2 * wkx, 0)) |->
                      Store(image.dtype, cell(i + wkx), nc)]]

\* convolve_with_mask_1d that divides num by the length of the kernel
convolve_with_mask_1d_mean(image, kern, msk, nc) ==
    LET nx == image.shape[1]
        nkx == kern.shape[1]
        wkx == nkx \div 2
        cell(i) ==
            LET iimin == Max(i - wkx, 0)
                iimax == Min(i + wkx + 1, nx)
                num == SumRange([ii \in Range(iimin, iimax) |->
                          IF msk.data[ii] = 0
                          THEN kern.data[wkx + ii - i] * image.data[ii]
                          ELSE 0], iimin, iimax)
                div == SumRange([ii \in Range(iimin, iimax) |->
                          IF msk.data[ii] = 0
                          THEN kern.data[wkx + ii - i]
                          ELSE 0], iimin, iimax)
            IN  IF div = 0 THEN NaN ELSE Div(num, nkx)
    IN  [shape |-> image.shape, dtype |-> image.dtype,
         data |-> [i \in Range(0, nx) |-> Store(image.dtype, cell(i), nc)]]

\* convolve_with_mask_1d that stores num without dividing it by div
convolve_with_mask_1d_undivided(image, kern, msk, nc) ==
    LET nx == image.shape[1]
        nkx == kern.shape[1]
        wkx == nkx \div 2
        cell(i) ==
            LET iimin == Max(i - wkx, 0)
                iimax == Min(i + wkx + 1, nx)
                num == SumRange([ii \in Range(iimin, iimax) |->
                          IF msk.data[ii] = 0
                          THEN kern.data[wkx + ii - i] * image.data[ii]
                          ELSE 0], iimin, iimax)
                div == SumRange([ii \in Range(iimin, iimax) |->
                          IF msk.data[ii] = 0
                          THEN kern.data[wkx + ii - i]
                          ELSE 0], iimin, iimax)
            IN  IF div = 0 THEN NaN ELSE Float(num)
    IN  [shape |-> image.shape, dtype |-> image.dtype,
         data |-> [i \in Range(0, nx) |-> Store(image.dtype, cell(i), nc)]]

convolve_with_mask_1d(image, kern, msk, nc) ==
    LET nx == image.shape[1]
        nkx == kern.shape[1]
        wkx == nkx \div 2
        cell(i) ==
            LET iimin == Max(i - wkx, 0)
                iimax == Min(i + wkx + 1, nx)
                num == SumRange([ii \in Range(iimin, iimax) |->
                          IF msk.data[ii] = 0
                          THEN kern.data[wkx + ii - i] * image.data[ii]
                          ELSE 0], iimin, iimax)
                div == SumRange([ii \in Range(iimin, iimax) |->
                          IF msk.data[ii] = 0
                          THEN kern.data[wkx + ii - i]
                          ELSE 0], iimin, iimax)
            IN  IF div = 0 THEN NaN ELSE Div(num, div)
    IN  [shape |-> image.shape, dtype |-> image.dtype,
         data |-> [i \in Range(0, nx) |-> Store(image.dtype, cell(i), nc)]]

\* convolve_with_mask_2d that does not look at the mask
convolve_with_mask_2d_unmasked(image, kern, msk, nc) ==
    LET nx == image.shape[1]
        ny == image.shape[2]
        nkx == kern.shape[1]
        nky == kern.shape[2]
        wkx == nkx \div 2
        wky == nky \div 2
        cell(i, j) ==
            LET iimin == Max(i - wkx, 0)
                iimax == Min(i + wkx + 1, nx)
                jjmin == Max(j - wky, 0)
                jjmax == Min(j + wky + 1, ny)
                num == SumRange([ii \in Range(iimin, iimax) |->
                         SumRange([jj \in Range(jjmin, jjmax) |->
                           IF TRUE
                           THEN kern.data[wkx + ii - i, wky + jj - j]
                                    * image.data[ii, jj]
                           ELSE 0], jjmin, jjmax)], iimin, iimax)
                div == SumRange([ii \in Range(iimin, iimax) |->
                         SumRange([jj \in Range(jjmin, jjmax) |->
                           IF TRUE
                           THEN kern.data[wkx + ii - i, wky + jj - j]
                           ELSE 0], jjmin, jjmax)], iimin, iimax)
            IN  IF div = 0 THEN NaN ELSE Div(num, div)
    IN  [shape |-> image.shape, dtype |-> image.dtype,
         data |-> [c \in Range(0, nx) \X Range(0, ny) |->
                      Store(image.dtype, cell(c[1], c[2]), nc)]]

convolve_with_mask_2d(image, kern, msk, nc) ==
    LET nx == image.shape[1]
        ny == image.shape[2]
        nkx == kern.shape[1]
        nky == kern.shape[2]
        wkx == nkx \div 2
        wky == nky \div 2
        cell(i, j) ==
            LET iimin == Max(i - wkx, 0)
                iimax == Min(i + wkx + 1, nx)
                jjmin == Max(j - wky, 0)
                jjmax == Min(j + wky + 1, ny)
                num == SumRange([ii \in Range(iimin, iimax) |->
                         SumRange([jj \in Range(jjmin, jjmax) |->
                           IF msk.data[ii, jj] = 0
                           THEN kern.data[wkx + ii - i, wky + jj - j]
                                    * image.data[ii, jj]
                           ELSE 0], jjmin, jjmax)], iimin, iimax)
                div == SumRange([ii \in Range(iimin, iimax) |->
                         SumRange([jj \in Range(jjmin, jjmax) |->
                           IF msk.data[ii, jj] = 0
                           THEN kern.data[wkx + ii - i, wky + jj - j]
                           ELSE 0], jjmin, jjmax)], iimin, iimax)
            IN  IF div = 0 THEN NaN ELSE Div(num, div)
    IN  [shape |-> image.shape, dtype |-> image.dtype,
         data |-> [c \in Range(0, nx) \X Range(0, ny) |->
                      Store(image.dtype, cell(c[1], c[2]), nc)]]

\* convolve_with_mask_3d that adds the masked cells of the window to num
convolve_with_mask_3d_leaky(image, kern, msk, nc) ==
    LET nx == image.shape[1]
        ny == image.shape[2]
        nz == image.shape[3]
        nkx == kern.shape[1]
        nky == kern.shape[2]
        nkz == kern.shape[3]
        wkx == nkx \div 2
        wky == nky \div 2
        wkz == nkz \div 2
        cell(i, j, k) ==
            LET iimin == Max(i - wkx, 0)
                iimax == Min(i + wkx + 1, nx)
                jjmin == Max(j - wky, 0)
                jjmax == Min(j + wky + 1, ny)
                kkmin == Max(k - wkz, 0)
                kkmax == Min(k + wkz + 1, nz)
                num == SumRange([ii \in Range(iimin, iimax) |->
                         SumRange([jj \in Range(jjmin, jjmax) |->
                           SumRange([kk \in Range(kkmin, kkmax) |->
                             kern.data[wkx + ii - i, wky + jj - j,
                                       wkz + kk - k]
                                 * image.data[ii, jj, kk]],
                             kkmin, kkmax)], jjmin, jjmax)],
                         iimin, iimax)
                div == SumRange([ii \in Range(iimin, iimax) |->
                         SumRange([jj \in Range(jjmin, jjmax) |->
                           SumRange([kk \in Range(kkmin, kkmax) |->
                             IF msk.data[ii, jj, kk] = 0
                             THEN kern.data[wkx + ii - i, wky + jj - j,
                                            wkz + kk - k]
                             ELSE 0], kkmin, kkmax)], jjmin, jjmax)],
                         iimin, iimax)
            IN  IF div = 0 THEN NaN ELSE Div(num, div)
    IN  [shape |-> image.shape, dtype |-> image.dtype,
         data |-> [c \in Range(0, nx) \X Range(0, ny) \X Range(0, nz) |->
                      Store(image.dtype, cell(c[1], c[2], c[3]), nc)]]

\* convolve_with_mask_3d whose window starts one cell late on the first axis
convolve_with_mask_3d_late(image, kern, msk, nc) ==
    LET nx == image.shape[1]
        ny == image.shape[2]
        nz == image.shape[3]
        nkx == kern.shape[1]
        nky == kern.shape[2]
        nkz == kern.shape[3]
        wkx == nkx \div 2
        wky == nky \div 2
        wkz == nkz \div 2
        cell(i, j, k) ==
            LET iimin == Max(i - wkx + 1, 0)
                iimax == Min(i + wkx + 1, nx)
                jjmin == Max(j - wky, 0)
                jjmax == Min(j + wky + 1, ny)
                kkmin == Max(k - wkz, 0)
                kkmax == Min(k + wkz + 1, nz)
                num == SumRange([ii \in Range(iimin, iimax) |->
                         SumRange([jj \in Range(jjmin, jjmax) |->
                           SumRange([kk \in Range(kkmin, kkmax) |->
                             IF msk.data[ii, jj, kk] = 0
                             THEN kern.data[wkx + ii - i, wky + jj - j,
                                            wkz + kk - k]
                                      * image.data[ii, jj, kk]
                             ELSE 0], kkmin, kkmax)], jjmin, jjmax)],
                         iimin, iimax)
                div == SumRange([ii \in Range(iimin, iimax) |->
                         SumRange([jj \in Range(jjmin, jjmax) |->
                           SumRange([kk \in Range(kkmin, kkmax) |->
                             IF msk.data[ii, jj, kk] = 0
                             THEN kern.data[wkx + ii - i, wky + jj - j,
                                            wkz + kk - k]
                             ELSE 0], kkmin, kkmax)], jjmin, jjmax)],
                         iimin, iimax)
            IN  IF div = 0 THEN NaN ELSE Div(num, div)
    IN  [shape |-> image.shape, dtype |-> image.dtype,
         data |-> [c \in Range(0, nx) \X Range(0, ny) \X Range(0, nz) |->
                      Store(image.dtype, cell(c[1], c[2], c[3]), nc)]]

convolve_with_mask_3d(image, kern, msk, nc) ==
    LET nx == image.shape[1]
        ny == image.shape[2]
        nz == image.shape[3]
        nkx == kern.shape[1]
        nky == kern.shape[2]
        nkz == kern.shape[3]
        wkx == nkx \div 2
        wky == nky \div 2
        wkz == nkz \div 2
        cell(i, j, k) ==
            LET iimin == Max(i - wkx, 0)
                iimax == Min(i + wkx + 1, nx)
                jjmin == Max(j - wky, 0)
                jjmax == Min(j + wky + 1, ny)
                kkmin == Max(k - wkz, 0)
                kkmax == Min(k + wkz + 1, nz)
                num == SumRange([ii \in Range(iimin, iimax) |->
                         SumRange([jj \in Range(jjmin, jjmax) |->
                           SumRange([kk \in Range(kkmin, kkmax) |->
                             IF msk.data[ii, jj, kk] = 0
                             THEN kern.data[wkx + ii - i, wky + jj - j,
                                            wkz + kk - k]
                                      * image.data[ii, jj, kk]
                             ELSE 0], kkmin, kkmax)], jjmin, jjmax)],
                         iimin, iimax)
                div == SumRange([ii \in Range(iimin, iimax) |->
                         SumRange([jj \in Range(jjmin, jjmax) |->
                           SumRange([kk \in Range(kkmin, kkmax) |->
                             IF msk.data[ii, jj, kk] = 0
                             THEN kern.data[wkx + ii - i, wky + jj - j,
                                            wkz + kk - k]
                             ELSE 0], kkmin, kkmax)], jjmin, jjmax)],
                         iimin, iimax)
            IN  IF div = 0 THEN NaN ELSE Div(num, div)
    IN  [shape |-> image.shape, dtype |-> image.dtype,
         data |-> [c \in Range(0, nx) \X Range(0, ny) \X Range(0, nz) |->
                      Store(image.dtype, cell(c[1], c[2], c[3]), nc)]]

\* the exceptions the two functions raise
ConflictingMaskError ==
    [type |-> "TypeError",
     msg |-> "Array contains a mask and an explicit mask wasgiven. Cannot evaluate which to use."]
ShapeMismatchError ==
    [type |-> "ValueError", msg |-> "Array and Mask must have the same shape."]
DimensionMismatchError ==
    [type |-> "ValueError",
     msg |-> "Array and Kernel must have the same number of dimensions."]
EvenKernelShapeError ==
    [type |-> "ValueError", msg |-> "Kernel must have an odd shape"]
UnsupportedDimensionError ==
    [type |-> "ValueError", msg |-> "Array must have 1, 2 or 3 dimensions."]
UnsupportedDimensionError2 ==
    [type |-> "ValueError", msg |-> "Array must have 2 dimensions."]

Raise(e) == [raised |-> e, value |-> None]
Return(v) == [raised |-> None, value |-> v]

\* mask_used that takes the explicit mask only and never adopts array.mask
mask_used_explicit(array0, mask0) == mask0

\* the mask and the array the function works on after the first block
mask_used(array0, mask0) ==
    IF hasattr_mask(array0) THEN array0.mask ELSE mask0
array_used(array0) ==
    IF hasattr_mask(array0) THEN data_of(array0) ELSE array0

\* convolve_error with the kernel-dimension check made before the mask-shape
\* check
convolve_error_kernel_first(array0, kern, mask0) ==
    IF hasattr_mask(array0) /\ mask0 # None THEN ConflictingMaskError
    ELSE LET msk == mask_used(array0, mask0)
             arr == array_used(array0)
         IN  IF ndim(kern) # ndim(arr) THEN DimensionMismatchError
             ELSE IF msk # None /\ arr.shape # msk.shape THEN ShapeMismatchError
             ELSE IF \E a \in 1 .. Len(kern.shape) : kern.shape[a] % 2 = 0
                  THEN EvenKernelShapeError
             ELSE IF ndim(arr) \notin {1, 2, 3} THEN UnsupportedDimensionError
             ELSE None

\* convolve_error with the mask-conflict check made after the mask-shape check
convolve_error_conflict_late(array0, kern, mask0) ==
    LET msk == mask_used(array0, mask0)
        arr == array_used(array0)
    IN  IF msk # None /\ arr.shape # msk.shape THEN ShapeMismatchError
        ELSE IF hasattr_mask(array0) /\ mask0 # None THEN ConflictingMaskError
        ELSE IF ndim(kern) # ndim(arr) THEN DimensionMismatchError
        ELSE IF \E a \in 1 .. Len(kern.shape) : kern.shape[a] % 2 = 0
             THEN EvenKernelShapeError
        ELSE IF ndim(arr) \notin {1, 2, 3} THEN UnsupportedDimensionError
        ELSE None

\* convolve_error whose mask-shape check compares the number of axes only
convolve_error_mask_ndim(array0, kern, mask0) ==
    IF hasattr_mask(array0) /\ mask0 # None THEN ConflictingMaskError
    ELSE LET msk == mask_used(array0, mask0)
             arr == array_used(array0)
         IN  IF msk # None /\ ndim(arr) # ndim(msk) THEN ShapeMismatchError
             ELSE IF ndim(kern) # ndim(arr) THEN DimensionMismatchError
             ELSE IF \E a \in 1 .. Len(kern.shape) : kern.shape[a] % 2 = 0
                  THEN EvenKernelShapeError
             ELSE IF ndim(arr) \notin {1, 2, 3} THEN UnsupportedDimensionError
             ELSE None

\* convolve_error whose odd-shape check looks at the first kernel axis only
convolve_error_first_axis(array0, kern, mask0) ==
    IF hasattr_mask(array0) /\ mask0 # None THEN ConflictingMaskError
    ELSE LET msk == mask_used(array0, mask0)
             arr == array_used(array0)
         IN  IF msk # None /\ arr.shape # msk.shape THEN ShapeMismatchError
             ELSE IF ndim(kern) # ndim(arr) THEN DimensionMismatchError
             ELSE IF \E a \in 1 .. Min(1, Len(kern.shape)) : kern.shape[a] % 2 = 0
                  THEN EvenKernelShapeError
             ELSE IF ndim(arr) \notin {1, 2, 3} THEN UnsupportedDimensionError
             ELSE None

\* convolve_error that has no routine for three axes
convolve_error_no_3d(array0, kern, mask0) ==
    IF hasattr_mask(array0) /\ mask0 # None THEN ConflictingMaskError
    ELSE LET msk == mask_used(array0, mask0)
             arr == array_used(array0)
         IN  IF msk # None /\ arr.shape # msk.shape THEN ShapeMismatchError
             ELSE IF ndim(kern) # ndim(arr) THEN DimensionMismatchError
             ELSE IF \E a \in 1 .. Len(kern.shape) : kern.shape[a] % 2 = 0
                  THEN EvenKernelShapeError
             ELSE IF ndim(arr) \notin {1, 2} THEN UnsupportedDimensionError
             ELSE None

\* the exception convolve_with_mask raises, None when it raises none: the
\* raise statements of the function in the order they are reached
convolve_error(array0, kern, mask0) ==
    IF hasattr_mask(array0) /\ mask0 # None THEN ConflictingMaskError
    ELSE LET msk == mask_used(array0, mask0)
             arr == array_used(array0)
         IN  IF msk # None /\ arr.shape # msk.shape THEN ShapeMismatchError
             ELSE IF ndim(kern) # ndim(arr) THEN DimensionMismatchError
             ELSE IF \E a \in 1 .. Len(kern.shape) : kern.shape[a] % 2 = 0
                  THEN EvenKernelShapeError
             ELSE IF ndim(arr) \notin {1, 2, 3} THEN UnsupportedDimensionError
             ELSE None

\* np.result_type of two dtypes
result_type(a, b) == IF a = "float64" \/ b = "float64" THEN "float64" ELSE "int64"

\* rescaled that leaves conv as it is
rescaled_noop(kernel_sum, kdtype, conv) == conv

\* kernel_sum * conv, kernel_sum a scalar of the kernel's dtype
rescaled(kernel_sum, kdtype, conv) ==
    [shape |-> conv.shape, dtype |-> result_type(kdtype, conv.dtype),
     data |-> [c \in DOMAIN conv.data |-> Mul(Float(kernel_sum), conv.data[c])]]

convolve_with_mask(array0, kern, mask0, rescale_kernel, nc) ==
    LET err == convolve_error(array0, kern, mask0)
    IN  IF err # None THEN Raise(err)
        ELSE LET arr == array_used(array0)
                 m0 == mask_used(array0, mask0)
                 msk == IF m0 = None THEN zeros_bool(arr.shape) ELSE m0
                 kernel_sum == np_sum(kern)
                 conv == CASE ndim(arr) = 1 ->
                                 convolve_with_mask_1d(arr, kern, msk, nc)
                           [] ndim(arr) = 2 ->
                                 convolve_with_mask_2d(arr, kern, msk, nc)
                           [] ndim(arr) = 3 ->
                                 convolve_with_mask_3d(arr, kern, msk, nc)
             IN  IF rescale_kernel
                 THEN Return(rescaled(kernel_sum, kern.dtype, conv))
                 ELSE Return(conv)

(***************************************************************************)
(* interpolate_mask.py                                                     *)
(***************************************************************************)
\* interpolate_mask_2d that replaces every cell, masked or not
interpolate_mask_2d_every(image, kern, msk, nc) ==
    LET nx == image.shape[1]
        ny == image.shape[2]
        nkx == kern.shape[1]
        nky == kern.shape[2]
        wkx == nkx \div 2
        wky == nky \div 2
        cell(i, j) ==
            IF TRUE
            THEN LET iimin == Max(i - wkx, 0)
                     iimax == Min(i + wkx + 1, nx)
                     jjmin == Max(j - wky, 0)
                     jjmax == Min(j + wky + 1, ny)
                     num == SumRange([ii \in Range(iimin, iimax) |->
                              SumRange([jj \in Range(jjmin, jjmax) |->
                                IF msk.data[ii, jj] = 0
                                THEN kern.data[wkx + ii - i, wky + jj - j]
                                         * image.data[ii, jj]
                                ELSE 0], jjmin, jjmax)], iimin, iimax)
                     div == SumRange([ii \in Range(iimin, iimax) |->
                              SumRange([jj \in Range(jjmin, jjmax) |->
                                IF msk.data[ii, jj] = 0
                                THEN kern.data[wkx + ii - i, wky + jj - j]
                                ELSE 0], jjmin, jjmax)], iimin, iimax)
                 IN  IF div = 0 THEN NaN ELSE Div(num, div)
            ELSE Float(image.data[i, j])
    IN  [shape |-> image.shape, dtype |-> image.dtype,
         data |-> [c \in Range(0, nx) \X Range(0, ny) |->
                      Store(image.dtype, cell(c[1], c[2]), nc)]]

\* interpolate_mask_2d that lets the centre cell into its own average
interpolate_mask_2d_self(image, kern, msk, nc) ==
    LET nx == image.shape[1]
        ny == image.shape[2]
        nkx == kern.shape[1]
        nky == kern.shape[2]
        wkx == nkx \div 2
        wky == nky \div 2
        cell(i, j) ==
            IF msk.data[i, j] = 1
            THEN LET iimin == Max(i - wkx, 0)
                     iimax == Min(i + wkx + 1, nx)
                     jjmin == Max(j - wky, 0)
                     jjmax == Min(j + wky + 1, ny)
                     num == SumRange([ii \in Range(iimin, iimax) |->
                              SumRange([jj \in Range(jjmin, jjmax) |->
                                IF msk.data[ii, jj] = 0 \/ (ii = i /\ jj = j)
                                THEN kern.data[wkx + ii - i, wky + jj - j]
                                         * image.data[ii, jj]
                                ELSE 0], jjmin, jjmax)], iimin, iimax)
                     div == SumRange([ii \in Range(iimin, iimax) |->
                              SumRange([jj \in Range(jjmin, jjmax) |->
                                IF msk.data[ii, jj] = 0 \/ (ii = i /\ jj = j)
                                THEN kern.data[wkx + ii - i, wky + jj - j]
                                ELSE 0], jjmin, jjmax)], iimin, iimax)
                 IN  IF div = 0 THEN NaN ELSE Div(num, div)
            ELSE Float(image.data[i, j])
    IN  [shape |-> image.shape, dtype |-> image.dtype,
         data |-> [c \in Range(0, nx) \X Range(0, ny) |->
                      Store(image.dtype, cell(c[1], c[2]), nc)]]

\* interpolate_mask_2d that averages over every cell of the window, masked
\* or not
interpolate_mask_2d_all(image, kern, msk, nc) ==
    LET nx == image.shape[1]
        ny == image.shape[2]
        nkx == kern.shape[1]
        nky == kern.shape[2]
        wkx == nkx \div 2
        wky == nky \div 2
        cell(i, j) ==
            IF msk.data[i, j] = 1
            THEN LET iimin == Max(i - wkx, 0)
                     iimax == Min(i + wkx + 1, nx)
                     jjmin == Max(j - wky, 0)
                     jjmax == Min(j + wky + 1, ny)
                     num == SumRange([ii \in Range(iimin, iimax) |->
                              SumRange([jj \in Range(jjmin, jjmax) |->
                                kern.data[wkx + ii - i, wky + jj - j]
                                    * image.data[ii, jj]],
                                jjmin, jjmax)], iimin, iimax)
                     div == SumRange([ii \in Range(iimin, iimax) |->
                              SumRange([jj \in Range(jjmin, jjmax) |->
                                kern.data[wkx + ii - i, wky + jj - j]],
                                jjmin, jjmax)], iimin, iimax)
                 IN  IF div = 0 THEN NaN ELSE Div(num, div)
            ELSE Float(image.data[i, j])
    IN  [shape |-> image.shape, dtype |-> image.dtype,
         data |-> [c \in Range(0, nx) \X Range(0, ny) |->
                      Store(image.dtype, cell(c[1], c[2]), nc)]]

\* interpolate_mask_2d that multiplies the average by the sum of the kernel
interpolate_mask_2d_rescaled(image, kern, msk, nc) ==
    LET nx == image.shape[1]
        ny == image.shape[2]
        nkx == kern.shape[1]
        nky == kern.shape[2]
        wkx == nkx \div 2
        wky == nky \div 2
        cell(i, j) ==
            IF msk.data[i, j] = 1
            THEN LET iimin == Max(i - wkx, 0)
                     iimax == Min(i + wkx + 1, nx)
                     jjmin == Max(j - wky, 0)
                     jjmax == Min(j + wky + 1, ny)
                     num == SumRange([ii \in Range(iimin, iimax) |->
                              SumRange([jj \in Range(jjmin, jjmax) |->
                                IF msk.data[ii, jj] = 0
                                THEN kern.data[wkx + ii - i, wky + jj - j]
                                         * image.data[ii, jj]
                                ELSE 0], jjmin, jjmax)], iimin, iimax)
                     div == SumRange([ii \in Range(iimin, iimax) |->
                              SumRange([jj \in Range(jjmin, jjmax) |->
                                IF msk.data[ii, jj] = 0
                                THEN kern.data[wkx + ii - i, wky + jj - j]
                                ELSE 0], jjmin, jjmax)], iimin, iimax)
                 IN  IF div = 0 THEN NaN
                     ELSE Mul(Float(np_sum(kern)), Div(num, div))
            ELSE Float(image.data[i, j])
    IN  [shape |-> image.shape, dtype |-> image.dtype,
         data |-> [c \in Range(0, nx) \X Range(0, ny) |->
                      Store(image.dtype, cell(c[1], c[2]), nc)]]

\* interpolate_mask_2d that keeps the value of a masked cell whose div is 0
interpolate_mask_2d_keep(image, kern, msk, nc) ==
    LET nx == image.shape[1]
        ny == image.shape[2]
        nkx == kern.shape[1]
        nky == kern.shape[2]
        wkx == nkx \div 2
        wky == nky \div 2
        cell(i, j) ==
            IF msk.data[i, j] = 1
            THEN LET iimin == Max(i - wkx, 0)
                     iimax == Min(i + wkx + 1, nx)
                     jjmin == Max(j - wky, 0)
                     jjmax == Min(j + wky + 1, ny)
                     num == SumRange([ii \in Range(iimin, iimax) |->
                              SumRange([jj \in Range(jjmin, jjmax) |->
                                IF msk.data[ii, jj] = 0
                                THEN kern.data[wkx + ii - i, wky + jj - j]
                                         * image.data[ii, jj]
                                ELSE 0], jjmin, jjmax)], iimin, iimax)
                     div == SumRange([ii \in Range(iimin, iimax) |->
                              SumRange([jj \in Range(jjmin, jjmax) |->
                                IF msk.data[ii, jj] = 0
                                THEN kern.data[wkx + ii - i, wky + jj - j]
                                ELSE 0], jjmin, jjmax)], iimin, iimax)
                 IN  IF div = 0 THEN Float(image.data[i, j]) ELSE Div(num, div)
            ELSE Float(image.data[i, j])
    IN  [shape |-> image.shape, dtype |-> image.dtype,
         data |-> [c \in Range(0, nx) \X Range(0, ny) |->
                      Store(image.dtype, cell(c[1], c[2]), nc)]]

interpolate_mask_2d(image, kern, msk, nc) ==
    LET nx == image.shape[1]
        ny == image.shape[2]
        nkx == kern.shape[1]
        nky == kern.shape[2]
        wkx == nkx \div 2
        wky == nky \div 2
        cell(i, j) ==
            IF msk.data[i, j] = 1
            THEN LET iimin == Max(i - wkx, 0)
                     iimax == Min(i + wkx + 1, nx)
                     jjmin == Max(j - wky, 0)
                     jjmax == Min(j + wky + 1, ny)
                     num == SumRange([ii \in Range(iimin, iimax) |->
                              SumRange([jj \in Range(jjmin, jjmax) |->
                                IF msk.data[ii, jj] = 0
                                THEN kern.data[wkx + ii - i, wky + jj - j]
                                         * image.data[ii, jj]
                                ELSE 0], jjmin, jjmax)], iimin, iimax)
                     div == SumRange([ii \in Range(iimin, iimax) |->
                              SumRange([jj \in Range(jjmin, jjmax) |->
                                IF msk.data[ii, jj] = 0
                                THEN kern.data[wkx + ii - i, wky + jj - j]
                                ELSE 0], jjmin, jjmax)], iimin, iimax)
                 IN  IF div = 0 THEN NaN ELSE Div(num, div)
            ELSE Float(image.data[i, j])
    IN  [shape |-> image.shape, dtype |-> image.dtype,
         data |-> [c \in Range(0, nx) \X Range(0, ny) |->
                      Store(image.dtype, cell(c[1], c[2]), nc)]]

\* interpolate_error that tests the number of axes of the array before the
\* kernel
interpolate_error_dim_first(array0, kern, mask0) ==
    IF hasattr_mask(array0) /\ mask0 # None THEN ConflictingMaskError
    ELSE LET msk == mask_used(array0, mask0)
             arr == array_used(array0)
         IN  IF msk # None /\ arr.shape # msk.shape THEN ShapeMismatchError
             ELSE IF ndim(arr) # 2 THEN UnsupportedDimensionError2
             ELSE IF ndim(kern) # ndim(arr) THEN DimensionMismatchError
             ELSE IF \E a \in 1 .. Len(kern.shape) : kern.shape[a] % 2 = 0
                  THEN EvenKernelShapeError
             ELSE None

interpolate_error(array0, kern, mask0) ==
    IF hasattr_mask(array0) /\ mask0 # None THEN ConflictingMaskError
    ELSE LET msk == mask_used(array0, mask0)
             arr == array_used(array0)
         IN  IF msk # None /\ arr.shape # msk.shape THEN ShapeMismatchError
             ELSE IF ndim(kern) # ndim(arr) THEN DimensionMismatchError
             ELSE IF \E a \in 1 .. Len(kern.shape) : kern.shape[a] % 2 = 0
                  THEN EvenKernelShapeError
             ELSE IF ndim(arr) # 2 THEN UnsupportedDimensionError2
             ELSE None

interpolate_mask(array0, kern, mask0, nc) ==
    LET err == interpolate_error(array0, kern, mask0)
    IN  IF err # None THEN Raise(err)
        ELSE LET arr == array_used(array0)
                 m0 == mask_used(array0, mask0)
                 msk == IF m0 = None THEN zeros_bool(arr.shape) ELSE m0
             IN  Return(interpolate_mask_2d(arr, kern, msk, nc))

(***************************************************************************)
(* The loops over the output cells, one cell at a time.  A frame holds the *)
(* arrays a routine works on: image, kernel and mask are the caller's      *)
(* arrays (passed by reference), result is the routine's own array, todo   *)
(* the cells the loop has not visited yet.                                 *)
(***************************************************************************)
\* np.zeros_like(image)
zeros_like(image) ==
    [shape |-> image.shape, dtype |-> image.dtype,
     data |-> [c \in DOMAIN image.data |-> Float(0)]]

\* the frame of a routine at its first loop iteration
enter(op, rescale_kernel, image, kern, msk) ==
    [op |-> op, rescale_kernel |-> rescale_kernel,
     image |-> image, kernel |-> kern, mask |-> msk,
     result |-> zeros_like(image), todo |-> DOMAIN image.data]

\* convolve_with_mask_1d_cell that works in place: the cell is stored, cut
\* to an integer, into image as well
convolve_with_mask_1d_cell_inplace(f, i, nc) ==
    LET nx == f.image.shape[1]
        nkx == f.kernel.shape[1]
        wkx == nkx \div 2
        iimin == Max(i - wkx, 0)
        iimax == Min(i + wkx + 1, nx)
        num == SumRange([ii \in Range(iimin, iimax) |->
                  IF f.mask.data[ii] = 0
                  THEN f.kernel.data[wkx + ii - i] * f.image.data[ii]
                  ELSE 0], iimin, iimax)
        div == SumRange([ii \in Range(iimin, iimax) |->
                  IF f.mask.data[ii] = 0
                  THEN f.kernel.data[wkx + ii - i]
                  ELSE 0], iimin, iimax)
        v == IF div = 0 THEN NaN ELSE Div(num, div)
    IN  [f EXCEPT !.result.data[i] = Store(f.image.dtype, v, nc),
                  !.image.data[i] = IF v = NaN THEN 0 ELSE Trunc(v),
                  !.todo = f.todo \ {i}]

\* one iteration of the loop over i of _convolve_with_mask_1d
convolve_with_mask_1d_cell(f, i, nc) ==
    LET nx == f.image.shape[1]
        nkx == f.kernel.shape[1]
        wkx == nkx \div 2
        iimin == Max(i - wkx, 0)
        iimax == Min(i + wkx + 1, nx)
        num == SumRange([ii \in Range(iimin, iimax) |->
                  IF f.mask.data[ii] = 0
                  THEN f.kernel.data[wkx + ii - i] * f.image.data[ii]
                  ELSE 0], iimin, iimax)
        div == SumRange([ii \in Range(iimin, iimax) |->
                  IF f.mask.data[ii] = 0
                  THEN f.kernel.data[wkx + ii - i]
                  ELSE 0], iimin, iimax)
        v == IF div = 0 THEN NaN ELSE Div(num, div)
    IN  [f EXCEPT !.result.data[i] = Store(f.image.dtype, v, nc),
                  !.todo = f.todo \ {i}]

\* convolve_with_mask_2d_cell that works in place: the cell is stored, cut
\* to an integer, into image as well
convolve_with_mask_2d_cell_inplace(f, c, nc) ==
    LET i == c[1]
        j == c[2]
        nx == f.image.shape[1]
        ny == f.image.shape[2]
        wkx == f.kernel.shape[1] \div 2
        wky == f.kernel.shape[2] \div 2
        iimin == Max(i - wkx, 0)
        iimax == Min(i + wkx + 1, nx)
        jjmin == Max(j - wky, 0)
        jjmax == Min(j + wky + 1, ny)
        num == SumRange([ii \in Range(iimin, iimax) |->
                 SumRange([jj \in Range(jjmin, jjmax) |->
                   IF f.mask.data[ii, jj] = 0
                   THEN f.kernel.data[wkx + ii - i, wky + jj - j]
                            * f.image.data[ii, jj]
                   ELSE 0], jjmin, jjmax)], iimin, iimax)
        div == SumRange([ii \in Range(iimin, iimax) |->
                 SumRange([jj \in Range(jjmin, jjmax) |->
                   IF f.mask.data[ii, jj] = 0
                   THEN f.kernel.data[wkx + ii - i, wky + jj - j]
                   ELSE 0], jjmin, jjmax)], iimin, iimax)
        v == IF div = 0 THEN NaN ELSE Div(num, div)
    IN  [f EXCEPT !.result.data[c] = Store(f.image.dtype, v, nc),
                  !.image.data[c] = IF v = NaN THEN 0 ELSE Trunc(v),
                  !.todo = f.todo \ {c}]

\* one iteration of the loops over i, j of _convolve_with_mask_2d
convolve_with_mask_2d_cell(f, c, nc) ==
    LET i == c[1]
        j == c[2]
        nx == f.image.shape[1]
        ny == f.image.shape[2]
        wkx == f.kernel.shape[1] \div 2
        wky == f.kernel.shape[2] \div 2
        iimin == Max(i - wkx, 0)
        iimax == Min(i + wkx + 1, nx)
        jjmin == Max(j - wky, 0)
        jjmax == Min(j + wky + 1, ny)
        num == SumRange([ii \in Range(iimin, iimax) |->
                 SumRange([jj \in Range(jjmin, jjmax) |->
                   IF f.mask.data[ii, jj] = 0
                   THEN f.kernel.data[wkx + ii - i, wky + jj - j]
                            * f.image.data[ii, jj]
                   ELSE 0], jjmin, jjmax)], iimin, iimax)
        div == SumRange([ii \in Range(iimin, iimax) |->
                 SumRange([jj \in Range(jjmin, jjmax) |->
                   IF f.mask.data[ii, jj] = 0
                   THEN f.kernel.data[wkx + ii - i, wky + jj - j]
                   ELSE 0], jjmin, jjmax)], iimin, iimax)
        v == IF div = 0 THEN NaN ELSE Div(num, div)
    IN  [f EXCEPT !.result.data[c] = Store(f.image.dtype, v, nc),
                  !.todo = f.todo \ {c}]

\* one iteration of the loops over i, j, k of _convolve_with_mask_3d
convolve_with_mask_3d_cell(f, c, nc) ==
    LET i == c[1]
        j == c[2]
        k == c[3]
        nx == f.image.shape[1]
        ny == f.image.shape[2]
        nz == f.image.shape[3]
        wkx == f.kernel.shape[1] \div 2
        wky == f.kernel.shape[2] \div 2
        wkz == f.kernel.shape[3] \div 2
        iimin == Max(i - wkx, 0)
        iimax == Min(i + wkx + 1, nx)
        jjmin == Max(j - wky, 0)
        jjmax == Min(j + wky + 1, ny)
        kkmin == Max(k - wkz, 0)
        kkmax == Min(k + wkz + 1, nz)
        num == SumRange([ii \in Range(iimin, iimax) |->
                 SumRange([jj \in Range(jjmin, jjmax) |->
                   SumRange([kk \in Range(kkmin, kkmax) |->
                     IF f.mask.data[ii, jj, kk] = 0
                     THEN f.kernel.data[wkx + ii - i, wky + jj - j, wkz + kk - k]
                              * f.image.data[ii, jj, kk]
                     ELSE 0], kkmin, kkmax)], jjmin, jjmax)], iimin, iimax)
        div == SumRange([ii \in Range(iimin, iimax) |->
                 SumRange([jj \in Range(jjmin, jjmax) |->
                   SumRange([kk \in Range(kkmin, kkmax) |->
                     IF f.mask.data[ii, jj, kk] = 0
                     THEN f.kernel.data[wkx + ii - i, wky + jj - j, wkz + kk - k]
                     ELSE 0], kkmin, kkmax)], jjmin, jjmax)], iimin, iimax)
        v == IF div = 0 THEN NaN ELSE Div(num, div)
    IN  [f EXCEPT !.result.data[c] = Store(f.image.dtype, v, nc),
                  !.todo = f.todo \ {c}]

\* one iteration of the loops over i, j of _interpolate_mask_2d
interpolate_mask_2d_cell(f, c, nc) ==
    LET i == c[1]
        j == c[2]
        nx == f.image.shape[1]
        ny == f.image.shape[2]
        wkx == f.kernel.shape[1] \div 2
        wky == f.kernel.shape[2] \div 2
        iimin == Max(i - wkx, 0)
        iimax == Min(i + wkx + 1, nx)
        jjmin == Max(j - wky, 0)
        jjmax == Min(j + wky + 1, ny)
        num == SumRange([ii \in Range(iimin, iimax) |->
                 SumRange([jj \in Range(jjmin, jjmax) |->
                   IF f.mask.data[ii, jj] = 0
                   THEN f.kernel.data[wkx + ii - i, wky + jj - j]
                            * f.image.data[ii, jj]
                   ELSE 0], jjmin, jjmax)], iimin, iimax)
        div == SumRange([ii \in Range(iimin, iimax) |->
                 SumRange([jj \in Range(jjmin, jjmax) |->
                   IF f.mask.data[ii, jj] = 0
                   THEN f.kernel.data[wkx + ii - i, wky + jj - j]
                   ELSE 0], jjmin, jjmax)], iimin, iimax)
        v == IF f.mask.data[i, j] = 1
             THEN (IF div = 0 THEN NaN ELSE Div(num, div))
             ELSE Float(f.image.data[i, j])
    IN  [f EXCEPT !.result.data[c] = Store(f.image.dtype, v, nc),
                  !.todo = f.todo \ {c}]

\* the loop body of the routine the frame belongs to
cell_step(f, c, nc) ==
    CASE f.op = "interpolate" -> interpolate_mask_2d_cell(f, c, nc)
      [] f.op = "convolve" /\ ndim(f.image) = 1 ->
            convolve_with_mask_1d_cell(f, c, nc)
      [] f.op = "convolve" /\ ndim(f.image) = 2 ->
            convolve_with_mask_2d_cell(f, c, nc)
      [] f.op = "convolve" /\ ndim(f.image) = 3 ->
            convolve_with_mask_3d_cell(f, c, nc)

\* window_indices with windows that are not cut at the low border
window_indices_unclipped(f, c) ==
    LET wkx == f.kernel.shape[1] \div 2
        wky == f.kernel.shape[2] \div 2
        wkz == f.kernel.shape[3] \div 2
    IN  CASE ndim(f.image) = 1 ->
                LET i == c
                    iimin == i - wkx
                    iimax == Min(i + wkx + 1, f.image.shape[1])
                IN  {[image |-> ii, kernel |-> wkx + ii - i] :
                        ii \in Range(iimin, iimax)}
          [] ndim(f.image) = 2 ->
                LET i == c[1]
                    j == c[2]
                    iimin == i - wkx
                    iimax == Min(i + wkx + 1, f.image.shape[1])
                    jjmin == j - wky
                    jjmax == Min(j + wky + 1, f.image.shape[2])
                IN  IF f.op = "interpolate" /\ f.mask.data[c] # 1 THEN {}
                    ELSE {[image |-> <<ii, jj>>,
                           kernel |-> <<wkx + ii - i, wky + jj - j>>] :
                             ii \in Range(iimin, iimax),
                             jj \in Range(jjmin, jjmax)}
          [] ndim(f.image) = 3 ->
                LET i == c[1]
                    j == c[2]
                    k == c[3]
                    iimin == i - wkx
                    iimax == Min(i + wkx + 1, f.image.shape[1])
                    jjmin == j - wky
                    jjmax == Min(j + wky + 1, f.image.shape[2])
                    kkmin == k - wkz
                    kkmax == Min(k + wkz + 1, f.image.shape[3])
                IN  {[image |-> <<ii, jj, kk>>,
                      kernel |-> <<wkx + ii - i, wky + jj - j, wkz + kk - k>>] :
                        ii \in Range(iimin, iimax),
                        jj \in Range(jjmin, jjmax),
                        kk \in Range(kkmin, kkmax)}

\* the index pairs the window loops of the iteration for cell c use: image
\* and mask are read at image, the kernel at kernel
window_indices(f, c) ==
    LET wkx == f.kernel.shape[1] \div 2
        wky == f.kernel.shape[2] \div 2
        wkz == f.kernel.shape[3] \div 2
    IN  CASE ndim(f.image) = 1 ->
                LET i == c
                    iimin == Max(i - wkx, 0)
                    iimax == Min(i + wkx + 1, f.image.shape[1])
                IN  {[image |-> ii, kernel |-> wkx + ii - i] :
                        ii \in Range(iimin, iimax)}
          [] ndim(f.image) = 2 ->
                LET i == c[1]
                    j == c[2]
                    iimin == Max(i - wkx, 0)
                    iimax == Min(i + wkx + 1, f.image.shape[1])
                    jjmin == Max(j - wky, 0)
                    jjmax == Min(j + wky + 1, f.image.shape[2])
                IN  IF f.op = "interpolate" /\ f.mask.data[c] # 1 THEN {}
                    ELSE {[image |-> <<ii, jj>>,
                           kernel |-> <<wkx + ii - i, wky + jj - j>>] :
                             ii \in Range(iimin, iimax),
                             jj \in Range(jjmin, jjmax)}
          [] ndim(f.image) = 3 ->
                LET i == c[1]
                    j == c[2]
                    k == c[3]
                    iimin == Max(i - wkx, 0)
                    iimax == Min(i + wkx + 1, f.image.shape[1])
                    jjmin == Max(j - wky, 0)
                    jjmax == Min(j + wky + 1, f.image.shape[2])
                    kkmin == Max(k - wkz, 0)
                    kkmax == Min(k + wkz + 1, f.image.shape[3])
                IN  {[image |-> <<ii, jj, kk>>,
                      kernel |-> <<wkx + ii - i, wky + jj - j, wkz + kk - k>>] :
                        ii \in Range(iimin, iimax),
                        jj \in Range(jjmin, jjmax),
                        kk \in Range(kkmin, kkmax)}

\* what the function returns once the routine has returned result
leave(f) ==
    IF f.op = "convolve" /\ f.rescale_kernel
    THEN rescaled(np_sum(f.kernel), f.kernel.dtype, f.result)
    ELSE f.result

(***************************************************************************)
(* The call arguments Init draws.                                          *)
(***************************************************************************)
Grid(shape, f) == [shape |-> shape, dtype |-> "float64", data |-> f]
BoolMask(shape, f) == [shape |-> shape, dtype |-> "bool", data |-> f]
\* a numpy masked array: data and an intrinsic mask
Masked(a, m) ==
    [shape |-> a.shape, dtype |-> a.dtype, data |-> a.data, mask |-> m]

Grids(shape) == {Grid(shape, f) : f \in [Idx(shape) -> ArrayVals]}
Masks(shape) == {BoolMask(shape, f) : f \in [Idx(shape) -> {0, 1}]}

\* row-major position of cell c in an array of the given shape
Rank(c, shape) ==
    CASE Len(shape) = 0 -> 0
      [] Len(shape) = 1 -> c
      [] Len(shape) = 2 -> c[1] * shape[2] + c[2]
      [] Len(shape) = 3 -> (c[1] * shape[2] + c[2]) * shape[3] + c[3]
      [] OTHER -> 0

\* kernels whose weights are b, b+s, b+2s, .. in row-major order: all ones,
\* all minus ones, the ramp 1,2,3,.. and the ramp -1,0,1,..
Kernels(shape) ==
    {Grid(shape, [c \in Idx(shape) |-> b + s * Rank(c, shape)]) :
        b \in KBase, s \in KStep}
Ones(shape) == Grid(shape, [c \in Idx(shape) |-> 1])

\* general family: every grid on the 2 x 2 square and on the shapes of at
\* most MaxCells (MaxCells3) cells, with no mask or any explicit mask
GridShapes ==
    {<<2, 2>>}
    \cup {<<n>> : n \in 1 .. MaxCells}
    \cup {s \in (1 .. MaxCells) \X (1 .. MaxCells) : s[1] * s[2] <= MaxCells}
    \cup {s \in (1 .. MaxCells3) \X (1 .. MaxCells3) \X (1 .. MaxCells3) :
            s[1] * s[2] * s[3] <= MaxCells3}
KernelShapes(d) ==
    CASE d = 1 -> {<<a>> : a \in KernelLens}
      [] d = 2 -> KernelLens \X KernelLens
      [] d = 3 -> KernelLens \X KernelLens \X KernelLens

InitGeneral ==
    \E s \in GridShapes :
        /\ array \in Grids(s)
        /\ mask \in {None} \cup Masks(s)
        /\ \E ks \in KernelShapes(Len(s)) : kernel \in Kernels(ks)

\* gap family: 1-D grids, the mask absent or one run of masked cells,
\* all-ones kernels
RunMask(n, lo, len) ==
    BoolMask(<<n>>, [i \in Range(0, n) |->
                        IF lo <= i /\ i < lo + len THEN 1 ELSE 0])
InitGap ==
    \E n \in 1 .. MaxLen :
        /\ array \in Grids(<<n>>)
        /\ mask \in {None} \cup {RunMask(n, lo, len) :
                                   lo \in Range(0, n), len \in 0 .. MaxRun}
        /\ kernel \in {Ones(<<k>>) : k \in OnesLens}

\* plane family: 2-D grids equal to one value except in at most one cell,
\* at most one masked cell, all-ones kernels
InitPlane ==
    \E s \in (1 .. MaxSide) \X (1 .. MaxSide) :
        /\ array \in {Grid(s, [c \in Idx(s) |-> IF c = h THEN v ELSE b]) :
                        h \in Idx(s), v \in ArrayVals, b \in ArrayVals}
        /\ mask \in {None, BoolMask(s, [c \in Idx(s) |-> 0])}
                    \cup {BoolMask(s, [c \in Idx(s) |-> IF c = h THEN 1 ELSE 0]) :
                            h \in Idx(s)}
        /\ kernel \in {Ones(ks) : ks \in KernelLens \X KernelLens}

\* shape family: arrays of 0..MaxNdim axes; the explicit and the intrinsic
\* mask absent, of the array's shape, or of a shape next to it; kernels of
\* 0..MaxNdim axes with one axis of any length 1..MaxAxis+1
Cube(d, n) == [a \in 1 .. d |-> n]
NearShapes(s) ==
    {s, Append(s, 1)}
    \cup (IF s = <<>> THEN {}
          ELSE {SubSeq(s, 1, Len(s) - 1), [s EXCEPT ![1] = s[1] + 1]})
KernelShapesOf(kd) ==
    {[Cube(kd, 1) EXCEPT ![a] = len] : a \in 1 .. kd, len \in 1 .. MaxAxis + 1}
KernelShapesAny == {<<>>} \cup UNION {KernelShapesOf(kd) : kd \in 1 .. MaxNdim}
InitShape ==
    \E d \in 0 .. MaxNdim, n \in 1 .. MaxAxis, v \in ArrayVals :
        LET s == Cube(d, n)
            g == Grid(s, [c \in Idx(s) |-> v])
            ms == {BoolMask(t, [c \in Idx(t) |-> 0]) : t \in NearShapes(s)}
        IN  /\ array \in {g} \cup {Masked(g, m) : m \in ms}
            /\ mask \in {None} \cup ms
            /\ kernel \in {Ones(ks) : ks \in KernelShapesAny}

\* masked family: the grids of the general family as masked arrays, with any
\* intrinsic mask of the grid's shape or the all-false mask of a shape next
\* to it; no explicit mask; the kernels of the general family and kernels
\* with even axes or one axis more
KernelShapesMasked(d) == KernelShapes(d) \cup {Cube(d, 2), Cube(d + 1, 1)}
InitMasked ==
    \E s \in GridShapes :
        /\ array \in {Masked(g, m) :
                        g \in Grids(s),
                        m \in Masks(s) \cup {BoolMask(t, [c \in Idx(t) |-> 0]) :
                                               t \in NearShapes(s)}}
        /\ mask = None
        /\ \E ks \in KernelShapesMasked(Len(s)) : kernel \in Kernels(ks)

\* integer family: the grids of the general family with integer cells, with
\* no mask or any explicit mask
IntGrid(shape, f) == [shape |-> shape, dtype |-> "int64", data |-> f]
InitInt ==
    \E s \in GridShapes :
        /\ array \in {IntGrid(s, f) : f \in [Idx(s) -> ArrayVals]}
        /\ mask \in {None} \cup Masks(s)
        /\ \E ks \in KernelShapes(Len(s)) : kernel \in Kernels(ks)

\* scaled family: the grids and masks of the general family; the kernels are
\* the kernels of the general family with the centre weight moved so that
\* the weights sum to 1, times a factor, so that the kernel divided by its
\* sum has integer weights again
Factors == {-2, 3}
Centre(shape) ==
    CASE Len(shape) = 1 -> shape[1] \div 2
      [] Len(shape) = 2 -> <<shape[1] \div 2, shape[2] \div 2>>
      [] Len(shape) = 3 -> <<shape[1] \div 2, shape[2] \div 2, shape[3] \div 2>>
UnitSum(k) ==
    [k EXCEPT !.data[Centre(k.shape)] = k.data[Centre(k.shape)] + 1 - np_sum(k)]
\* c * kernel
Scaled(k, c) == [k EXCEPT !.data = [x \in DOMAIN k.data |-> c * k.data[x]]]
InitScaled ==
    \E s \in GridShapes :
        /\ array \in Grids(s)
        /\ mask \in {None} \cup Masks(s)
        /\ \E ks \in KernelShapes(Len(s)), f \in Factors :
              kernel \in {Scaled(UnitSum(k), f) : k \in Kernels(ks)}

\* truthy family: 2-D grids whose cells hold v, v+1, v+2, .. in row-major
\* order, with no mask or an explicit numeric mask whose cells hold 0, 1 or
\* another truthy value; the kernels of the general family
MaskVals == {0, 1, 2}
IntMask(shape, f) == [shape |-> shape, dtype |-> "int64", data |-> f]
InitTruthy ==
    \E s \in {t \in GridShapes : Len(t) = 2}, v \in ArrayVals :
        /\ array = Grid(s, [c \in Idx(s) |-> v + Rank(c, s)])
        /\ mask \in {None} \cup {IntMask(s, f) : f \in [Idx(s) -> MaskVals]}
        /\ \E ks \in KernelShapes(2) : kernel \in Kernels(ks)

\* loop family: grids of 1 to 3 axes whose cells hold v, v+1, v+2, .., with no
\* mask, any explicit mask or any intrinsic mask; the kernel is the ramp
\* 1, 2, 3, .. of length 3 on every axis or the all-ones kernel of length 2
LoopShapes ==
    {<<n>> : n \in 1 .. MaxLoopCells}
    \cup {s \in (1 .. MaxLoopCells) \X (1 .. MaxLoopCells) :
            s[1] * s[2] <= MaxLoopCells}
    \cup {s \in (1 .. MaxCells3) \X (1 .. MaxCells3) \X (1 .. MaxCells3) :
            s[1] * s[2] * s[3] <= MaxCells3}
InitLoop ==
    \E s \in LoopShapes, v \in ArrayVals :
        LET g == Grid(s, [c \in Idx(s) |-> v + Rank(c, s)])
        IN  /\ \/ array = g /\ mask \in {None} \cup Masks(s)
               \/ array \in {Masked(g, m) : m \in Masks(s)} /\ mask = None
            /\ kernel \in {Grid(Cube(Len(s), 3),
                                [c \in Idx(Cube(Len(s), 3)) |->
                                    1 + Rank(c, Cube(Len(s), 3))]),
                           Ones(Cube(Len(s), 2))}

\* the integers a build stores for a NaN converted to int64: the conversion
\* is undefined, builds yield 0 or the least int64; IntMin stands for the
\* latter within the integers TLC computes with
IntMin == -(2 ^ 20)
NanCasts(a) == IF a.dtype = "float64" THEN {0} ELSE {0, IntMin}

(***************************************************************************)
(* The calls.                                                              *)
(***************************************************************************)
Convolve(rescale_kernel) ==
    /\ outcome' = [op |-> "convolve", rescale_kernel |-> rescale_kernel,
                   res |-> convolve_with_mask(array, kernel, mask,
                                              rescale_kernel, nancast)]
    /\ UNCHANGED <<array, kernel, mask, nancast, frame>>

Interpolate ==
    /\ outcome' = [op |-> "interpolate",
                   res |-> interpolate_mask(array, kernel, mask, nancast)]
    /\ UNCHANGED <<array, kernel, mask, nancast, frame>>

Next == (\E r \in BOOLEAN : Convolve(r)) \/ Interpolate

Start == nancast \in NanCasts(array) /\ outcome = None /\ frame = None

Init == InitGeneral /\ Start
Spec == Init /\ [][Next]_vars

InitOnes == (InitGap \/ InitPlane) /\ Start
SpecOnes == InitOnes /\ [][Next]_vars

InitShapes == InitShape /\ Start
SpecShapes == InitShapes /\ [][Next]_vars

InitMaskeds == InitMasked /\ Start
SpecMasked == InitMaskeds /\ [][Next]_vars

InitInts == InitInt /\ Start
SpecInt == InitInts /\ [][Next]_vars

InitScaleds == InitScaled /\ Start
SpecScaled == InitScaleds /\ [][Next]_vars

InitTruthys == InitTruthy /\ Start
SpecTruthy == InitTruthys /\ [][Next]_vars

(***************************************************************************)
(* The calls followed cell by cell.  The routine works on the caller's     *)
(* arrays, so what it leaves in image, kernel and mask is what the caller  *)
(* finds in array, kernel and mask after the call.                         *)
(***************************************************************************)
Enter(op, rescale_kernel, err, without) ==
    /\ frame = None
    /\ IF err # None
       THEN /\ outcome' = without @@ [res |-> Raise(err)]
            /\ frame' = None
       ELSE /\ frame' = enter(op, rescale_kernel, array_used(array), kernel,
                              IF mask_used(array, mask) = None
                              THEN zeros_bool(array.shape)
                              ELSE mask_used(array, mask))
            /\ outcome' = outcome
    /\ UNCHANGED <<array, kernel, mask, nancast>>

CallConvolve(rescale_kernel) ==
    Enter("convolve", rescale_kernel, convolve_error(array, kernel, mask),
          [op |-> "convolve", rescale_kernel |-> rescale_kernel])

CallInterpolate ==
    Enter("interpolate", FALSE, interpolate_error(array, kernel, mask),
          [op |-> "interpolate"])

\* one iteration of the loop over the output cells, in any order
Cell ==
    /\ frame # None
    /\ \E c \in frame.todo : frame' = cell_step(frame, c, nancast)
    /\ UNCHANGED <<array, kernel, mask, nancast, outcome>>

\* the loop is over: the function returns
Finish ==
    /\ frame # None
    /\ frame.todo = {}
    /\ outcome' = IF frame.op = "convolve"
                  THEN [op |-> "convolve",
                        rescale_kernel |-> frame.rescale_kernel,
                        res |-> Return(leave(frame))]
                  ELSE [op |-> "interpolate", res |-> Return(leave(frame))]
    /\ array' = IF hasattr_mask(array)
                THEN [array EXCEPT !.data = frame.image.data,
                                   !.mask = frame.mask]
                ELSE [array EXCEPT !.data = frame.image.data]
    /\ kernel' = frame.kernel
    /\ mask' = IF mask = None THEN None ELSE frame.mask
    /\ frame' = None
    /\ UNCHANGED nancast

NextLoop ==
    \/ \E r \in BOOLEAN : CallConvolve(r)
    \/ CallInterpolate
    \/ Cell
    \/ Finish

InitLoops == InitLoop /\ Start
SpecLoop == InitLoops /\ [][NextLoop]_vars

(***************************************************************************)
(* What the claims speak of.                                               *)
(***************************************************************************)
Called(op) == outcome # None /\ outcome.op = op
Raised == outcome.res.raised
Output == outcome.res.value
Succeeded(op) == Called(op) /\ Raised = None

\* the conditions of the error table, stated on the call arguments
HasConflict == hasattr_mask(array) /\ mask # None
MaskShapeBad ==
    \/ mask # None /\ mask.shape # array.shape
    \/ hasattr_mask(array) /\ array.mask.shape # array.shape
KernelDimBad == Len(kernel.shape) # Len(array.shape)
KernelEven == \E a \in DOMAIN kernel.shape : kernel.shape[a] % 2 = 0
DimUnsupported(op) ==
    IF op = "convolve" THEN Len(array.shape) \notin {1, 2, 3}
    ELSE Len(array.shape) # 2
Unsupported(op) ==
    IF op = "convolve" THEN UnsupportedDimensionError
    ELSE UnsupportedDimensionError2

\* the five checks in the order of the error table
Checks(op) ==
    << [bad |-> HasConflict, err |-> ConflictingMaskError],
       [bad |-> MaskShapeBad, err |-> ShapeMismatchError],
       [bad |-> KernelDimBad, err |-> DimensionMismatchError],
       [bad |-> KernelEven, err |-> EvenKernelShapeError],
       [bad |-> DimUnsupported(op), err |-> Unsupported(op)] >>
Violated(op) == {k \in DOMAIN Checks(op) : Checks(op)[k].bad}
EarliestError(op) ==
    IF Violated(op) = {} THEN None
    ELSE Checks(op)[CHOOSE k \in Violated(op) : \A l \in Violated(op) : k <= l].err

\* the grid and the mask the caller means, whichever way the mask came
Cells == Idx(array.shape)
Axes == 1 .. Len(array.shape)
ValueAt(x) == array.data[x]
MaskAt(x) ==
    IF hasattr_mask(array) THEN array.mask.data[x]
    ELSE IF mask = None THEN 0 ELSE mask.data[x]
IsMasked(x) == MaskAt(x) # 0

\* coordinate a of cell x (a 1-D cell is its own coordinate)
Co(x, a) == IF Len(array.shape) = 1 THEN x ELSE x[a]
Half(a) == kernel.shape[a] \div 2
\* x lies in the kernel window centred on c (x is a cell, so in the grid)
InWindow(x, c) == \A a \in Axes : Abs(Co(x, a) - Co(c, a)) <= Half(a)
Window(c) == {x \in Cells : InWindow(x, c)}
Contributors(c) == {x \in Window(c) : ~IsMasked(x)}
\* the kernel cell that lies over x when the kernel centre lies over c
Over(x, c) ==
    CASE Len(array.shape) = 1 -> Half(1) + x - c
      [] Len(array.shape) = 2 -> <<Half(1) + x[1] - c[1], Half(2) + x[2] - c[2]>>
      [] Len(array.shape) = 3 -> <<Half(1) + x[1] - c[1], Half(2) + x[2] - c[2],
                                   Half(3) + x[3] - c[3]>>
Weight(x, c) == kernel.data[Over(x, c)]
WeightSum(c) == SumSet([x \in Contributors(c) |-> Weight(x, c)], Contributors(c))
ValueSum(c) ==
    SumSet([x \in Contributors(c) |-> Weight(x, c) * ValueAt(x)], Contributors(c))
\* the weighted average of the unmasked cells of the window of c
WeightedAverage(c) == Div(ValueSum(c), WeightSum(c))
KernelSum == SumSet(kernel.data, Idx(kernel.shape))
\* what convolve is to hold in cell c
Averaged(c) ==
    IF outcome.rescale_kernel THEN Mul(Float(KernelSum), WeightedAverage(c))
    ELSE WeightedAverage(c)

\* C1: a call of convolve or of interpolate raises the error of the earliest
\* violated check in the order conflicting mask, mask shape, kernel
\* dimension, even kernel axis, unsupported dimension, and raises nothing
\* when no check is violated; so a call that violates the mask-shape and the
\* kernel-dimension check (and no earlier one) raises the mask-shape error,
\* and a 4-D array that passes the first three checks with an even kernel
\* axis raises the even-kernel error.
C1_ValidationOrder ==
    outcome # None =>
        /\ Raised = EarliestError(outcome.op)
        /\ (~HasConflict /\ MaskShapeBad /\ KernelDimBad
                => Raised = ShapeMismatchError)
        /\ (Violated(outcome.op) = {4, 5} /\ Len(array.shape) = 4
                => Raised = EvenKernelShapeError)

\* a call that violates the last four checks at once and raises the
\* mask-shape error
C1_Witness ==
    /\ Called("convolve")
    /\ Violated("convolve") = {2, 3, 4, 5}
    /\ Raised = ShapeMismatchError

\* C10: when the array carries an intrinsic mask and an explicit mask is
\* passed too, convolve and interpolate raise the mask-conflict error and
\* return nothing, whatever the shapes are.
C10_ConflictAlwaysRaises ==
    outcome # None /\ HasConflict =>
        Raised = ConflictingMaskError /\ Output = None

\* a conflicting call in which the shapes of both masks and of the kernel
\* are wrong as well
C10_Witness ==
    /\ Called("convolve")
    /\ HasConflict
    /\ mask.shape # array.shape
    /\ array.mask.shape # array.shape
    /\ KernelDimBad
    /\ Raised = ConflictingMaskError

\* C2: convolve does not raise on valid arguments; an output cell whose
\* window holds no unmasked grid cell is NaN (not zero), and every other
\* cell of the same output, whose unmasked weights do not sum to zero, holds
\* its own weighted average (times the kernel sum when rescaled).
C2_FullyMaskedWindowIsNaN ==
    Called("convolve") =>
        /\ Raised = None
        /\ DOMAIN Output.data = Cells
        /\ \A c \in Cells :
              /\ Contributors(c) = {} =>
                    Output.data[c] = NaN /\ Output.data[c] # Float(0)
              /\ Contributors(c) # {} /\ WeightSum(c) # 0 =>
                    Output.data[c] = Averaged(c)

\* an output with a NaN cell under a fully masked window beside a cell that
\* holds a weighted average
C2_Witness ==
    /\ Succeeded("convolve")
    /\ \E c, e \in Cells :
          /\ Window(c) # {} /\ Contributors(c) = {}
          /\ Output.data[c] = NaN
          /\ Contributors(e) # {} /\ WeightSum(e) # 0
          /\ Output.data[e] = Averaged(e) /\ Output.data[e] # NaN

\* the call arguments with the value of grid cell c replaced by v
ArrayWith(c, v) == [array EXCEPT !.data[c] = v]
\* values a grid cell may be given instead of its own
OtherVals == ArrayVals \cup {0, 7}

\* C3: interpolate does not raise on a valid 2-D input and every cell whose
\* mask is false holds the value of the array in that cell, whatever the
\* kernel and the neighbouring cells are.
C3_InterpolatePassThrough ==
    Called("interpolate") /\ Len(array.shape) = 2 =>
        /\ Raised = None
        /\ DOMAIN Output.data = Cells
        /\ \A c \in Cells : MaskAt(c) = 0 => Output.data[c] = Float(ValueAt(c))

\* an unmasked cell passed through although the weighted average of its
\* window, which holds a masked cell, is another value
C3_Witness ==
    /\ Succeeded("interpolate")
    /\ \E c \in Cells :
          /\ MaskAt(c) = 0
          /\ \E x \in Window(c) : IsMasked(x)
          /\ WeightSum(c) # 0
          /\ WeightedAverage(c) # Float(ValueAt(c))
          /\ Output.data[c] = Float(ValueAt(c))

\* C4: the value interpolate puts in a masked cell c stays the same when
\* the value the array holds at c is replaced by any other.
C4_InterpolateSelfExclusion ==
    Succeeded("interpolate") =>
        \A c \in Cells : MaskAt(c) = 1 =>
            \A v \in OtherVals :
                interpolate_mask(ArrayWith(c, v), kernel, mask, nancast)
                    .value.data[c] = Output.data[c]

\* a masked cell replaced by an average that differs from its own value,
\* under a kernel whose centre weight is not zero
C4_Witness ==
    /\ Succeeded("interpolate")
    /\ \E c \in Cells :
          /\ MaskAt(c) = 1
          /\ Weight(c, c) # 0
          /\ Output.data[c] # NaN
          /\ Output.data[c] # Float(ValueAt(c))

\* C5: the output of convolve with rescale_kernel=True is, cell by cell, the
\* sum of all kernel cells times the output with rescale_kernel=False, and
\* is NaN exactly where that one is NaN.
C5_KernelSumScaling ==
    Succeeded("convolve") /\ outcome.rescale_kernel =>
        LET plain == convolve_with_mask(array, kernel, mask, FALSE, nancast)
        IN  /\ plain.raised = None
            /\ \A c \in Cells :
                  /\ Output.data[c] =
                        Mul(Float(KernelSum), plain.value.data[c])
                  /\ Output.data[c] = NaN <=> plain.value.data[c] = NaN

\* a rescaled output with a cell whose window is clipped or partly masked,
\* so that its local weight sum is not the kernel sum, and with a NaN cell
C5_Witness ==
    /\ Succeeded("convolve") /\ outcome.rescale_kernel
    /\ KernelSum \notin {0, 1}
    /\ \E c, e \in Cells :
          /\ WeightSum(c) \notin {0, KernelSum}
          /\ Output.data[c] = Mul(Float(KernelSum), WeightedAverage(c))
          /\ Output.data[c] \notin {NaN, Float(0)}
          /\ Output.data[e] = NaN

\* the all-false mask of the array's shape, passed explicitly
AllFalse == BoolMask(array.shape, [c \in Cells |-> 0])

\* C6: convolve called with no mask returns what convolve returns when the
\* all-false mask of the array's shape is passed, for 1-D, 2-D and 3-D
\* arrays and both values of rescale_kernel.
C6_NoMaskIsAllFalseMask ==
    Called("convolve") /\ mask = None /\ ~hasattr_mask(array) =>
        outcome.res = convolve_with_mask(array, kernel, AllFalse,
                                         outcome.rescale_kernel, nancast)

\* a successful call with no mask on a 3-D array whose output is not NaN
C6_Witness ==
    /\ Succeeded("convolve") /\ mask = None /\ ~hasattr_mask(array)
    /\ Len(array.shape) = 3
    /\ \E c \in Cells : Output.data[c] # NaN

(***************************************************************************)
(* All-ones kernels (gap and plane family).                                *)
(***************************************************************************)
Len1 == array.shape[1]
At(j) == array.data[j]
Out(j) == Output.data[j]
\* (s / n) * k on floats
MeanTimes(s, n, k) == Mul(Div(s, n), Float(k))
Rescaled1D(k) ==
    /\ Succeeded("convolve") /\ outcome.rescale_kernel
    /\ Len(array.shape) = 1
    /\ kernel = Ones(<<k>>)
MaskedCells == {x \in Cells : IsMasked(x)}
\* the indices of the grid among i-w .. i+w
InGrid(i, w) == {j \in (i - w) .. (i + w) : 0 <= j /\ j < Len1}

\* C7: with no mask, rescale_kernel=True and the all-ones 1-D kernel of
\* length 2w+1, output cell i is the sum of the array over the grid indices
\* among i-w..i+w, divided by their number, times 2w+1; with kernel
\* [1,1,1] on a grid of two or more cells the first cell is
\* (array[0]+array[1])/2*3 and the last (array[-1]+array[-2])/2*3.
C7_BoundaryTruncation ==
    \A k \in OnesLens :
        Rescaled1D(k) /\ mask = None =>
            /\ \A i \in Cells :
                  Out(i) = MeanTimes(SumSet(array.data, InGrid(i, k \div 2)),
                                     Cardinality(InGrid(i, k \div 2)), k)
            /\ k = 3 /\ Len1 >= 2 =>
                  /\ Out(0) = MeanTimes(At(0) + At(1), 2, 3)
                  /\ Out(Len1 - 1) = MeanTimes(At(Len1 - 1) + At(Len1 - 2), 2, 3)

\* kernel [1,1,1,1,1] on a grid of four cells or more: the first cell
\* averages three cells, the second four
C7_Witness ==
    /\ Rescaled1D(5) /\ mask = None
    /\ Len1 >= 4
    /\ Out(0) = MeanTimes(At(0) + At(1) + At(2), 3, 5)
    /\ Out(1) = MeanTimes(At(0) + At(1) + At(2) + At(3), 4, 5)
    /\ Out(0) # Float(At(0) + At(1) + At(2))
    /\ Out(0) # Float(0)

\* the eight neighbours of cell k of a 2-D grid
Around(k) == {x \in Cells : x # k /\ Abs(x[1] - k[1]) <= 1 /\ Abs(x[2] - k[2]) <= 1}

\* C8: with an all-ones kernel, rescale_kernel=True and exactly one masked
\* cell k that has unmasked cells in its window, the output at k is the mean
\* of the unmasked cells of the window times the kernel sum; for kernel
\* [1,1,1] and k inside a 1-D grid it is (array[k-1]+array[k+1])/2*3, for
\* the 3x3 kernel and k inside a 2-D grid the sum of the 8 neighbours /8*9.
C8_SingleMaskedCell ==
    Succeeded("convolve") /\ outcome.rescale_kernel
    /\ kernel = Ones(kernel.shape) /\ Cardinality(MaskedCells) = 1 =>
        \A k \in MaskedCells :
            /\ Contributors(k) # {} =>
                  Out(k) = MeanTimes(SumSet(array.data, Contributors(k)),
                                     Cardinality(Contributors(k)), KernelSum)
            /\ kernel.shape = <<3>> /\ 1 <= k /\ k <= Len1 - 2 =>
                  Out(k) = MeanTimes(At(k - 1) + At(k + 1), 2, 3)
            /\ kernel.shape = <<3, 3>>
               /\ 1 <= k[1] /\ k[1] <= array.shape[1] - 2
               /\ 1 <= k[2] /\ k[2] <= array.shape[2] - 2 =>
                  Out(k) = MeanTimes(SumSet(array.data, Around(k)), 8, 9)

\* the 3x3 kernel and one masked cell inside a 2-D grid, whose value
\* differs from the mean of its eight neighbours
C8_Witness ==
    /\ Succeeded("convolve") /\ outcome.rescale_kernel
    /\ kernel = Ones(<<3, 3>>) /\ Cardinality(MaskedCells) = 1
    /\ \E k \in MaskedCells :
          /\ Cardinality(Around(k)) = 8
          /\ Out(k) = MeanTimes(SumSet(array.data, Around(k)), 8, 9)
          /\ Out(k) # Float(9 * At(k))

\* exactly the cells k-1, k, k+1 are masked and none of them is the first
\* or the last cell of the grid
RunOfThree(k) ==
    /\ Rescaled1D(3)
    /\ MaskedCells = {k - 1, k, k + 1}
    /\ 1 <= k - 1 /\ k + 1 <= Len1 - 2

\* array[j] as Python reads it: a negative index counts from the end, an
\* index outside -n .. n-1 has no value
Indexable(j) == -Len1 <= j /\ j < Len1
PyAt(j) == At(IF j < 0 THEN j + Len1 ELSE j)

\* C9 as claimed: with kernel [1,1,1], rescale_kernel=True and exactly the
\* inner cells k-1, k, k+1 masked, Output[k] is NaN, Output[k-1] is
\* 3*array[k-2], Output[k+1] is 3*array[k+2], and the cells k-2 and k+2 give
\* (array[k-3]+array[k-2])/2*3 and (array[k+2]+array[k+3])/2*3.
C9_Claimed ==
    \A k \in 0 .. MaxLen + 1 :
        RunOfThree(k) =>
            /\ Out(k) = NaN
            /\ Out(k - 1) = Mul(Float(3), Float(At(k - 2)))
            /\ Out(k + 1) = Mul(Float(3), Float(At(k + 2)))
            /\ Indexable(k - 3)
            /\ Out(k - 2) = MeanTimes(PyAt(k - 3) + PyAt(k - 2), 2, 3)
            /\ Indexable(k + 3)
            /\ Out(k + 2) = MeanTimes(PyAt(k + 2) + PyAt(k + 3), 2, 3)

\* C9 as amended: with kernel [1,1,1], rescale_kernel=True and exactly the
\* inner cells k-1, k, k+1 masked, Output[k] is NaN, Output[k-1] is
\* 3*array[k-2] and Output[k+1] is 3*array[k+2]; cell k-2 gives
\* (array[k-3]+array[k-2])/2*3 when k-3 is a grid index and 3*array[k-2] when
\* k-2 is the first cell; cell k+2 gives (array[k+2]+array[k+3])/2*3 when k+3
\* is a grid index and 3*array[k+2] when k+2 is the last cell.
C9_RunOfThree ==
    \A k \in 0 .. MaxLen + 1 :
        RunOfThree(k) =>
            /\ Out(k) = NaN
            /\ Out(k - 1) = Mul(Float(3), Float(At(k - 2)))
            /\ Out(k + 1) = Mul(Float(3), Float(At(k + 2)))
            /\ Out(k - 2) = IF k - 3 >= 0
                            THEN MeanTimes(At(k - 3) + At(k - 2), 2, 3)
                            ELSE Mul(Float(3), Float(At(k - 2)))
            /\ Out(k + 2) = IF k + 3 <= Len1 - 1
                            THEN MeanTimes(At(k + 2) + At(k + 3), 2, 3)
                            ELSE Mul(Float(3), Float(At(k + 2)))

\* a run of three with the cells k-3 and k+3 in the grid, where the two cells
\* beside the run hold values other than 3 times their own
C9_Witness ==
    \E k \in 3 .. MaxLen :
        /\ RunOfThree(k)
        /\ k + 3 <= Len1 - 1
        /\ Out(k) = NaN
        /\ Out(k - 2) = MeanTimes(At(k - 3) + At(k - 2), 2, 3)
        /\ Out(k + 2) = MeanTimes(At(k + 2) + At(k + 3), 2, 3)
        /\ Out(k - 2) # Mul(Float(3), Float(At(k - 2)))
        /\ Out(k + 2) # Mul(Float(3), Float(At(k + 2)))

(***************************************************************************)
(* Masked arrays (masked family).                                          *)
(***************************************************************************)
\* the plain data and the mask of a masked array, as the caller would pass
\* them one by one
PlainData == [shape |-> array.shape, dtype |-> array.dtype, data |-> array.data]
IntrinsicMask == array.mask

\* C11: a call on an array that carries an intrinsic mask, with no explicit
\* mask, has the outcome (value or error) of the same call on the plain data
\* with the intrinsic mask passed as the explicit mask, for convolve (both
\* values of rescale_kernel) and for interpolate.
C11_IntrinsicMaskAdopted ==
    outcome # None /\ hasattr_mask(array) /\ mask = None =>
        outcome.res =
            IF outcome.op = "convolve"
            THEN convolve_with_mask(PlainData, kernel, IntrinsicMask,
                                    outcome.rescale_kernel, nancast)
            ELSE interpolate_mask(PlainData, kernel, IntrinsicMask, nancast)

\* a convolution of a masked array whose intrinsic mask flags a cell and
\* changes the output: it is the output of the plain call with that mask and
\* not the output of the plain call with no mask
C11_Witness ==
    /\ Succeeded("convolve") /\ hasattr_mask(array) /\ mask = None
    /\ \E c \in Cells : IsMasked(c)
    /\ outcome.res = convolve_with_mask(PlainData, kernel, IntrinsicMask,
                                        outcome.rescale_kernel, nancast)
    /\ outcome.res # convolve_with_mask(PlainData, kernel, None,
                                        outcome.rescale_kernel, nancast)
    /\ \E c \in Cells : Output.data[c] \notin {NaN, Float(0)}

(***************************************************************************)
(* The error table, check by check (shape family).                         *)
(***************************************************************************)
\* the mask the call works with: the intrinsic one, else the explicit one,
\* else none
EffectiveMask == IF hasattr_mask(array) THEN array.mask ELSE mask

\* C12: convolve and interpolate raise the mask-shape error exactly when no
\* mask conflict exists and the effective mask (explicit or intrinsic) has a
\* shape other than the array's, by an axis length or by the number of axes;
\* a call with no mask at all never raises it.
C12_ShapeMismatch ==
    outcome # None =>
        /\ Raised = ShapeMismatchError <=>
              /\ ~HasConflict
              /\ EffectiveMask # None
              /\ EffectiveMask.shape # array.shape
        /\ (mask = None /\ ~hasattr_mask(array)) => Raised # ShapeMismatchError

\* an intrinsic mask with the array's number of axes and one axis longer,
\* under a kernel that is wrong as well, raises the mask-shape error
C12_Witness ==
    /\ Called("interpolate")
    /\ hasattr_mask(array) /\ mask = None
    /\ Len(array.mask.shape) = Len(array.shape)
    /\ array.mask.shape # array.shape
    /\ KernelDimBad
    /\ Raised = ShapeMismatchError

\* the kernel axes of even length
EvenAxes == {a \in 1 .. Len(kernel.shape) : kernel.shape[a] % 2 = 0}
PassesFirstThree == ~HasConflict /\ ~MaskShapeBad /\ ~KernelDimBad

\* C13: a call of convolve or interpolate that passes the mask-conflict, the
\* mask-shape and the kernel-dimension check raises the even-kernel error
\* if and only if some kernel axis, whichever one, has an even length; a
\* kernel whose axis lengths are all odd, 1 included, never raises it.
C13_EvenKernelAxis ==
    outcome # None /\ PassesFirstThree =>
        /\ Raised = EvenKernelShapeError <=> EvenAxes # {}
        /\ (\A a \in 1 .. Len(kernel.shape) : kernel.shape[a] \in {1, 3, 5})
              => Raised # EvenKernelShapeError

\* a kernel of three axes whose last axis alone is even is rejected
C13_Witness ==
    /\ Called("convolve") /\ PassesFirstThree
    /\ Len(kernel.shape) = 3
    /\ EvenAxes = {3}
    /\ Raised = EvenKernelShapeError

PassesFirstFour == PassesFirstThree /\ EvenAxes = {}
\* the mask the routines are handed
WorkingMask == IF EffectiveMask = None THEN AllFalse ELSE EffectiveMask
\* the routine written for the array's number of axes, applied to the call
Routine ==
    CASE Len(array.shape) = 1 ->
            convolve_with_mask_1d(PlainData, kernel, WorkingMask, nancast)
      [] Len(array.shape) = 2 ->
            convolve_with_mask_2d(PlainData, kernel, WorkingMask, nancast)
      [] Len(array.shape) = 3 ->
            convolve_with_mask_3d(PlainData, kernel, WorkingMask, nancast)

\* C14: a call of convolve that passes the four earlier checks raises the
\* unsupported-dimension error exactly when the array has 0 or more than 3
\* axes, and otherwise returns what the 1-D, 2-D or 3-D routine of the
\* array's number of axes computes (times the kernel sum when rescaled); no
\* array of 1, 2 or 3 axes is ever rejected as unsupported.
C14_UnsupportedDimension ==
    Called("convolve") =>
        /\ PassesFirstFour =>
              /\ Raised = UnsupportedDimensionError <=>
                    (Len(array.shape) = 0 \/ Len(array.shape) > 3)
              /\ Len(array.shape) \in {1, 2, 3} =>
                    /\ Raised = None
                    /\ Output.shape = Routine.shape
                    /\ \A c \in Cells :
                          Output.data[c] =
                              IF outcome.rescale_kernel
                              THEN Mul(Float(KernelSum), Routine.data[c])
                              ELSE Routine.data[c]
        /\ Len(array.shape) \in {1, 2, 3} => Raised # UnsupportedDimensionError

\* an array of no axes with a kernel of no axes passes the four earlier
\* checks and is rejected as unsupported
C14_Witness ==
    /\ Called("convolve") /\ PassesFirstFour
    /\ array.shape = <<>> /\ kernel.shape = <<>>
    /\ Raised = UnsupportedDimensionError

\* C15 as claimed: a call of interpolate on an array that does not have two
\* axes raises the unsupported-dimension error, whatever kernel is passed
\* (read here for calls with no mask conflict and a mask of the array's shape).
C15_Claimed ==
    Called("interpolate") /\ Len(array.shape) # 2 /\ ~HasConflict /\ ~MaskShapeBad
        => Raised = UnsupportedDimensionError2

\* C15 as amended: a call of interpolate on an array that does not have two
\* axes always fails; it fails with the unsupported-dimension error exactly
\* when the four earlier checks pass, so with a kernel of another number of
\* axes it fails with the kernel-dimension error and with a kernel of the
\* array's number of axes and an even axis with the even-kernel error; an
\* array of two axes is never rejected as unsupported.
C15_InterpolateOnly2D ==
    Called("interpolate") =>
        /\ Len(array.shape) # 2 =>
              /\ Raised # None /\ Output = None
              /\ Raised = UnsupportedDimensionError2 <=> PassesFirstFour
              /\ PassesFirstThree /\ EvenAxes # {} => Raised = EvenKernelShapeError
              /\ ~HasConflict /\ ~MaskShapeBad /\ KernelDimBad
                    => Raised = DimensionMismatchError
        /\ Len(array.shape) = 2 => Raised # UnsupportedDimensionError2

\* an array of three axes with a kernel of three odd axes is rejected as
\* unsupported by interpolate
C15_Witness ==
    /\ Called("interpolate") /\ PassesFirstFour
    /\ Len(array.shape) = 3 /\ Len(kernel.shape) = 3
    /\ \E a \in 1 .. 3 : kernel.shape[a] = 3
    /\ Raised = UnsupportedDimensionError2

(***************************************************************************)
(* The output grid.                                                        *)
(***************************************************************************)
\* a call on valid arguments: the four checks pass and the array has the
\* number of axes the operation is written for
ValidCall ==
    /\ outcome # None
    /\ PassesFirstFour
    /\ outcome.op = "interpolate" => Len(array.shape) = 2
    /\ outcome.op = "convolve" => Len(array.shape) \in {1, 2, 3}

\* C16: on valid arguments convolve and interpolate return an output of
\* exactly the array's shape, with one cell for every grid index and no
\* other cell, also when the kernel is longer than the grid along an axis.
C16_OutputShape ==
    ValidCall =>
        /\ Raised = None
        /\ Output.shape = array.shape
        /\ DOMAIN Output.data = Idx(array.shape)

\* a grid of two or more cells under a kernel longer than the grid along
\* every axis of length 2 or more, convolved into a grid of the same shape
C16_Witness ==
    /\ ValidCall /\ outcome.op = "convolve"
    /\ Cardinality(Cells) >= 2
    /\ \E a \in Axes : array.shape[a] >= 2 /\ kernel.shape[a] > array.shape[a]
    /\ Output.shape = array.shape
    /\ DOMAIN Output.data = Cells

(***************************************************************************)
(* Integer grids (integer family).                                         *)
(***************************************************************************)
\* what the claims let cell c of the output hold: the weighted average of
\* the unmasked cells of its window (NaN when there is none), which
\* interpolate puts in masked cells only
Quotient(c) ==
    IF outcome.op = "interpolate" /\ MaskAt(c) = 0 THEN Float(ValueAt(c))
    ELSE IF Contributors(c) = {} THEN NaN
    ELSE IF outcome.op = "convolve" THEN Averaged(c)
    ELSE WeightedAverage(c)
\* cells whose unmasked weights do not cancel
Settled(c) == Contributors(c) = {} \/ WeightSum(c) # 0

\* C17 as claimed: on valid arguments, a grid of integers included, the
\* output of convolve (rescaled or not) and of interpolate is floating-point
\* and every cell holds the exact quotient num/div, or NaN, never a value
\* truncated to the integer type of the grid.
C17_Claimed ==
    ValidCall =>
        /\ Raised = None
        /\ Output.dtype = "float64"
        /\ \A c \in Cells : Settled(c) => Output.data[c] = Quotient(c)

\* an integer grid convolved without rescaling into an integer output in
\* which a cell holds its quotient cut to an integer and a cell with no
\* unmasked cell in its window holds an integer in place of NaN
C17_Witness ==
    /\ ValidCall /\ outcome.op = "convolve" /\ ~outcome.rescale_kernel
    /\ array.dtype = "int64"
    /\ Raised = None
    /\ Output.dtype = "int64"
    /\ \E c, e \in Cells :
          /\ Settled(c) /\ Quotient(c) # NaN
          /\ Quotient(c)[2] # 1
          /\ Output.data[c] = Float(Trunc(Quotient(c)))
          /\ Contributors(e) = {}
          /\ Output.data[e] = Float(nancast)

(***************************************************************************)
(* Convolution against the standard one.                                   *)
(***************************************************************************)
NoMask == mask = None /\ ~hasattr_mask(array)
\* the whole kernel window of c lies inside the grid
Interior(c) ==
    \A a \in Axes : Co(c, a) - Half(a) >= 0 /\ Co(c, a) + Half(a) < array.shape[a]
\* kernel[centre + d] for the offset d with x = c - d
Flipped(x, c) ==
    CASE Len(array.shape) = 1 -> kernel.data[Half(1) + c - x]
      [] Len(array.shape) = 2 ->
            kernel.data[<<Half(1) + c[1] - x[1], Half(2) + c[2] - x[2]>>]
      [] Len(array.shape) = 3 ->
            kernel.data[<<Half(1) + c[1] - x[1], Half(2) + c[2] - x[2],
                          Half(3) + c[3] - x[3]>>]
\* the standard discrete convolution at an interior cell c:
\* the sum over offsets d of kernel[centre + d] * array[c - d]
StandardConvolution(c) ==
    SumSet([x \in Window(c) |-> Flipped(x, c) * ValueAt(x)], Window(c))
\* the sum over offsets d of kernel[centre + d] * array[c + d]
CrossCorrelation(c) ==
    SumSet([x \in Window(c) |-> Weight(x, c) * ValueAt(x)], Window(c))

\* C18 as claimed: with no mask and rescale_kernel=True, for every kernel,
\* symmetric or not, every output cell whose whole kernel window lies inside
\* the grid holds the standard discrete convolution of the array with the
\* kernel, the sum over offsets d of kernel[centre + d] * array[idx - d]
\* (read here for the kernels that do not sum to zero).
C18_Claimed ==
    Succeeded("convolve") /\ outcome.rescale_kernel /\ NoMask /\ KernelSum # 0 =>
        \A c \in Cells :
            Interior(c) => Output.data[c] = Float(StandardConvolution(c))

\* an interior cell under a kernel that is not symmetric and does not sum
\* to zero: the output is the sum of kernel[centre + d] * array[idx + d],
\* which is not the standard convolution
C18_Witness ==
    /\ Succeeded("convolve") /\ outcome.rescale_kernel /\ NoMask
    /\ KernelSum # 0
    /\ \E c \in Cells :
          /\ Interior(c)
          /\ Cardinality(Window(c)) >= 3
          /\ Output.data[c] = Float(CrossCorrelation(c))
          /\ Output.data[c] # Float(StandardConvolution(c))

\* an infinite float: n / 0 with n not 0
IsInf(v) == v[2] = 0 /\ v[1] # 0

\* C20 as claimed: when the kernel sums to 0, with no mask and either value
\* of rescale_kernel, every cell of the output of convolve is Inf.
C20_Claimed ==
    Succeeded("convolve") /\ NoMask /\ KernelSum = 0 =>
        \A c \in Cells : IsInf(Output.data[c])

\* a kernel that sums to 0 over a grid with an interior cell, which comes
\* out as NaN, and a border cell, which comes out finite
C20_Witness ==
    /\ Succeeded("convolve") /\ NoMask /\ KernelSum = 0
    /\ \E c, e \in Cells :
          /\ Interior(c) /\ Output.data[c] = NaN
          /\ ~Interior(e) /\ WeightSum(e) # 0
          /\ Output.data[e] = Averaged(e)
          /\ Output.data[e] # NaN /\ ~IsInf(Output.data[e])

(***************************************************************************)
(* Kernels divided by their sum (scaled family).                           *)
(***************************************************************************)
\* a / b for integers, b # 0, when b divides a
Exact(a, b) == IF b > 0 THEN (IF a >= 0 THEN a \div b ELSE -((-a) \div b))
               ELSE (IF a >= 0 THEN -(a \div (-b)) ELSE (-a) \div (-b))
Divides(b, a) == Abs(a) % Abs(b) = 0
\* kernel / kernel_sum, when its weights are integers
SumDividesKernel ==
    KernelSum # 0 /\ \A x \in DOMAIN kernel.data : Divides(KernelSum, kernel.data[x])
DividedBySum ==
    [kernel EXCEPT !.data = [x \in DOMAIN kernel.data |->
                                Exact(kernel.data[x], KernelSum)]]

\* C19: for valid arguments with a kernel sum other than 0, convolve with
\* rescale_kernel=False returns what convolve with rescale_kernel=True
\* returns for the kernel divided by its sum, and what convolve with
\* rescale_kernel=False returns for the kernel times a nonzero constant.
C19_RescaleFalseIsNormalised ==
    Succeeded("convolve") /\ ~outcome.rescale_kernel /\ KernelSum # 0 =>
        /\ SumDividesKernel =>
              outcome.res = convolve_with_mask(array, DividedBySum, mask,
                                               TRUE, nancast)
        /\ \A f \in Factors :
              outcome.res = convolve_with_mask(array, Scaled(kernel, f), mask,
                                               FALSE, nancast)

\* a kernel of unequal weights with a sum other than 1 and -1, a cell with a
\* masked cell in its window that the unrescaled output, the rescaled output
\* under the divided kernel and the rescaled output under the kernel itself
\* fill with a value, the last one with another value
C19_Witness ==
    /\ Succeeded("convolve") /\ ~outcome.rescale_kernel
    /\ SumDividesKernel /\ Abs(KernelSum) >= 2
    /\ \E x, y \in DOMAIN kernel.data : kernel.data[x] # kernel.data[y]
    /\ outcome.res = convolve_with_mask(array, DividedBySum, mask, TRUE, nancast)
    /\ \E c \in Cells :
          /\ \E x \in Window(c) : IsMasked(x)
          /\ Output.data[c] \notin {NaN, Float(0)}
          /\ Output.data[c] = WeightedAverage(c)
          /\ convolve_with_mask(array, kernel, mask, TRUE, nancast).value.data[c]
                # Output.data[c]

(***************************************************************************)
(* The calls followed cell by cell (loop family).                          *)
(***************************************************************************)
\* two outcomes of the same call: the same operation with the same flag
SameCall(a, b) ==
    /\ a # None /\ b # None
    /\ a.op = b.op
    /\ a.op = "convolve" => a.rescale_kernel = b.rescale_kernel

\* C21: convolve and interpolate never change array, kernel, mask or an
\* intrinsic mask: while a routine runs, the arrays it works on hold what the
\* caller passed, and after the call, successful or failing, the caller's
\* arrays are what they were; a call repeated on the same arguments has the
\* same outcome.
C21_InputsUntouched ==
    /\ [](frame # None =>
            /\ frame.image = PlainData
            /\ frame.kernel = kernel
            /\ frame.mask = WorkingMask)
    /\ [][/\ array' = array
          /\ kernel' = kernel
          /\ mask' = mask
          /\ SameCall(outcome, outcome') => outcome' = outcome]_vars

\* a second call of an operation that has returned a grid before is at the
\* end of its loop over a masked array of two or more cells, with a result
\* that differs from the array
C21_Witness ==
    /\ frame # None /\ frame.todo = {}
    /\ Succeeded(frame.op)
    /\ hasattr_mask(array)
    /\ Cardinality(Cells) >= 2
    /\ \E c \in Cells : frame.result.data[c] # Float(array.data[c])
    /\ frame.image = PlainData

\* what the sequential loop of the frame's routine computes
Sequential ==
    IF frame.op = "interpolate"
    THEN interpolate_mask_2d(PlainData, kernel, WorkingMask, nancast)
    ELSE Routine
\* what the whole call returns
WholeCall ==
    IF outcome.op = "interpolate"
    THEN interpolate_mask(array, kernel, mask, nancast)
    ELSE convolve_with_mask(array, kernel, mask, outcome.rescale_kernel, nancast)

\* C25: the cells of the output are computed independently: each iteration
\* writes one cell that was not written before and no other, a written cell
\* holds what the sequential loop puts in it whatever cells were written
\* before it, and a call whose cells were computed in any order returns what
\* the sequential call returns.
C25_CellsIndependent ==
    /\ [](frame # None =>
            \A c \in DOMAIN frame.result.data :
                frame.result.data[c] =
                    IF c \in frame.todo THEN Float(0) ELSE Sequential.data[c])
    /\ [](outcome # None => outcome.res = WholeCall)
    /\ [][frame # None /\ frame' # None =>
            \E c \in frame.todo :
                /\ frame'.todo = frame.todo \ {c}
                /\ \A d \in DOMAIN frame.result.data \ {c} :
                      frame'.result.data[d] = frame.result.data[d]
                /\ frame'.image = frame.image
                /\ frame'.mask = frame.mask
                /\ frame'.kernel = frame.kernel]_vars

\* interpolate has filled a masked cell while a cell before it in the loop
\* order, masked too and in its window, is not written yet
C25_Witness ==
    /\ frame # None /\ frame.op = "interpolate"
    /\ \E c \in Cells \ frame.todo, d \in frame.todo :
          /\ Rank(d, array.shape) < Rank(c, array.shape)
          /\ MaskAt(c) = 1 /\ MaskAt(d) = 1
          /\ d \in Window(c)
          /\ frame.result.data[c] \notin {NaN, Float(0)}
          /\ frame.result.data[c] = Sequential.data[c]

(***************************************************************************)
(* Where NaN appears (general family).                                     *)
(***************************************************************************)
\* the cells the operation computes: all cells in convolve, the masked
\* cells in interpolate
Computed(c) == outcome.op = "convolve" \/ MaskAt(c) = 1
\* the weights of the contributors of c all have one sign and none is 0
OneSign(c) ==
    \/ \A x \in Contributors(c) : Weight(x, c) > 0
    \/ \A x \in Contributors(c) : Weight(x, c) < 0

\* C22 as claimed: for every kernel with a sum other than 0, zero and
\* negative weights included, a computed cell whose clipped window holds an
\* unmasked grid cell is not NaN but a finite weighted average.
C22_Claimed ==
    outcome # None /\ Raised = None /\ KernelSum # 0 =>
        \A c \in Cells :
            Computed(c) /\ Contributors(c) # {} => Output.data[c] # NaN

\* C22 as amended: a computed cell is NaN exactly when the weights of the
\* unmasked grid cells of its clipped window sum to 0, which is so when
\* there is no such cell; when these weights are all positive or all
\* negative the cell is NaN only if every cell of the window is masked or
\* off the grid, and a cell that is not NaN holds the weighted average.
C22_NaNIffZeroWeight ==
    outcome # None /\ Raised = None =>
        \A c \in Cells :
            Computed(c) =>
                LET div == WeightSum(c)
                IN  /\ Output.data[c] = NaN <=> div = 0
                    /\ Contributors(c) = {} => Output.data[c] = NaN
                    /\ OneSign(c) /\ Output.data[c] = NaN => Contributors(c) = {}
                    /\ div # 0 =>
                          Output.data[c] =
                              IF outcome.op = "convolve"
                                 /\ outcome.rescale_kernel
                              THEN Mul(Float(KernelSum), Div(ValueSum(c), div))
                              ELSE Div(ValueSum(c), div)

\* interpolate, under a kernel that does not sum to 0, turns a masked cell
\* into NaN although its window holds an unmasked cell, whose weights cancel
C22_Witness ==
    /\ Succeeded("interpolate") /\ KernelSum # 0
    /\ \E c \in Cells :
          /\ MaskAt(c) = 1
          /\ Contributors(c) # {}
          /\ WeightSum(c) = 0
          /\ Output.data[c] = NaN

(***************************************************************************)
(* Numeric masks (truthy family).                                          *)
(***************************************************************************)
\* the weighted average of the unmasked cells of the window of c, NaN when
\* their weights sum to 0
Fill(c) == IF WeightSum(c) = 0 THEN NaN ELSE WeightedAverage(c)

\* C23 as claimed: in interpolate, for every mask that passes validation,
\* numeric masks with truthy values other than 1 included, the cells that
\* are filled are the cells with a truthy mask value and they are the cells
\* left out of every average: a cell with a truthy mask value holds the
\* weighted average of the cells of its window whose mask value is 0, and a
\* cell whose mask value is 0 holds its own value.
C23_Claimed ==
    Succeeded("interpolate") =>
        \A c \in Cells :
            Output.data[c] = IF IsMasked(c) THEN Fill(c) ELSE Float(ValueAt(c))

\* interpolate leaves a cell whose mask value is 2 as it is, although the
\* cell is left out of the average that fills a neighbour and its own window
\* has another average to give
C23_Witness ==
    /\ Succeeded("interpolate")
    /\ \E c, x \in Cells :
          /\ MaskAt(c) = 2
          /\ Output.data[c] = Float(ValueAt(c))
          /\ Fill(c) # Float(ValueAt(c))
          /\ MaskAt(x) = 1
          /\ c \in Window(x)
          /\ c \notin Contributors(x)
          /\ Output.data[x] = Fill(x)
          /\ Output.data[x] # NaN

(***************************************************************************)
(* interpolate against convolve (masked family).                           *)
(***************************************************************************)
\* what the other function returns for the arguments of the call
ConvolveUnrescaled == convolve_with_mask(array, kernel, mask, FALSE, nancast)
Interpolated == interpolate_mask(array, kernel, mask, nancast)

\* C24: for a valid 2-D array, kernel and boolean mask, the output of
\* interpolate at every masked cell is the output of convolve without
\* rescale at that cell, NaN where that is NaN; stated from either call.
C24_InterpolateIsConvolve ==
    outcome # None /\ Raised = None /\ Len(array.shape) = 2
    /\ (outcome.op = "convolve" => ~outcome.rescale_kernel) =>
        /\ ConvolveUnrescaled.raised = None
        /\ Interpolated.raised = None
        /\ \A c \in Cells :
              MaskAt(c) = 1 =>
                  /\ Interpolated.value.data[c] = ConvolveUnrescaled.value.data[c]
                  /\ Output.data[c] = Interpolated.value.data[c]

\* an interpolation under a kernel whose weights do not sum to 1, with a
\* masked cell that is filled with a number, which is what convolve without
\* rescale holds there, and another masked cell that is NaN in both
C24_Witness ==
    /\ Succeeded("interpolate")
    /\ KernelSum \notin {0, 1}
    /\ \E c, x \in Cells :
          /\ MaskAt(c) = 1
          /\ Output.data[c] \notin {NaN, Float(0)}
          /\ Output.data[c] = ConvolveUnrescaled.value.data[c]
          /\ MaskAt(x) = 1
          /\ Output.data[x] = NaN
          /\ ConvolveUnrescaled.value.data[x] = NaN

(***************************************************************************)
(* One routine per number of axes (integer family).                        *)
(***************************************************************************)
\* a.reshape(shape) of a 1-D array: the cells in row-major order
Reshape(a, shape) ==
    IF a = None THEN None
    ELSE [a EXCEPT !.shape = shape,
                   !.data = [c \in Idx(shape) |-> a.data[Rank(c, shape)]]]
\* the shape (n, 1) or (n, 1, 1) of a 1-D array as an array of d axes
Column(a, d) == Reshape(a, [Cube(d, 1) EXCEPT ![1] = a.shape[1]])

\* C26: for a 1-D array, kernel and mask, the 2-D routine on the data
\* reshaped to (n,1) with the kernel reshaped to (k,1), and the 3-D routine
\* on (n,1,1) and (k,1,1), return the output of the 1-D routine reshaped the
\* same way; so does the whole function, which returned the 1-D output.
C26_RoutinesAgree ==
    Succeeded("convolve") /\ Len(array.shape) = 1 =>
        LET out1 == convolve_with_mask_1d(PlainData, kernel, WorkingMask, nancast)
            out2 == convolve_with_mask_2d(Column(PlainData, 2), Column(kernel, 2),
                                          Column(WorkingMask, 2), nancast)
            out3 == convolve_with_mask_3d(Column(PlainData, 3), Column(kernel, 3),
                                          Column(WorkingMask, 3), nancast)
        IN  /\ out2 = Column(out1, 2)
            /\ out3 = Column(out1, 3)
            /\ \A d \in {2, 3} :
                  convolve_with_mask(Column(array, d), Column(kernel, d),
                                     IF mask = None THEN None ELSE Column(mask, d),
                                     outcome.rescale_kernel, nancast)
                      = Return(Column(Output, d))

\* a 1-D call with a kernel as long as the grid and a mask that hides a
\* cell but not all, whose output holds a cut quotient; the 3-D routine
\* returns the same cells in a column
C26_Witness ==
    /\ Succeeded("convolve") /\ ~outcome.rescale_kernel
    /\ Len(array.shape) = 1
    /\ array.shape[1] > 1
    /\ kernel.shape[1] >= array.shape[1]
    /\ \E x, y \in Cells : IsMasked(x) /\ ~IsMasked(y)
    /\ \E c \in Cells : WeightSum(c) # 0 /\ Output.data[c] # WeightedAverage(c)
    /\ convolve_with_mask_3d(Column(PlainData, 3), Column(kernel, 3),
                             Column(WorkingMask, 3), nancast).data
          = [c \in Idx(<<array.shape[1], 1, 1>>) |-> Output.data[c[1]]]

(***************************************************************************)
(* What an output cell depends on (loop family).                           *)
(***************************************************************************)
\* the result of the call made, had it been made on array a and mask m
Recall(a, m) ==
    IF outcome.op = "convolve"
    THEN convolve_with_mask(a, kernel, m, outcome.rescale_kernel, nancast)
    ELSE interpolate_mask(a, kernel, m, nancast)
\* the array with every masked cell set to v
MaskedSetTo(v) ==
    [array EXCEPT !.data = [x \in Cells |->
                               IF IsMasked(x) THEN v ELSE array.data[x]]]
\* the explicit mask with the value of cell x replaced by b
MaskWith(x, b) ==
    IF mask = None THEN [AllFalse EXCEPT !.data[x] = b]
    ELSE [mask EXCEPT !.data[x] = b]

\* C27: with no mask or an explicit boolean mask, a successful call of
\* convolve or interpolate returns the same output when the masked cells of the array hold other
\* values, one of them or all; and an output cell is the same when an
\* array cell outside its clipped kernel window holds another value or a
\* mask cell outside the window is flipped.
C27_MaskedValuesUnused ==
    outcome # None /\ Raised = None /\ ~hasattr_mask(array) =>
        /\ \A v \in OtherVals : Recall(MaskedSetTo(v), mask) = outcome.res
        /\ \A x \in MaskedCells, v \in OtherVals :
              Recall(ArrayWith(x, v), mask) = outcome.res
        /\ \A x \in Cells :
              /\ \A v \in OtherVals :
                    LET other == Recall(ArrayWith(x, v), mask)
                    IN  \A c \in Cells \ {x} :
                            x \notin Window(c) =>
                                other.value.data[c] = Output.data[c]
              /\ LET other == Recall(array, MaskWith(x, 1 - MaskAt(x)))
                 IN  \A c \in Cells \ {x} :
                         x \notin Window(c) =>
                             other.value.data[c] = Output.data[c]

\* a convolution with an unmasked cell c, a masked cell x in its window and
\* an unmasked cell y outside its window that holds another value than c:
\* the output is the same with another value in x, and the same at c with
\* another value in y
C27_Witness ==
    /\ Succeeded("convolve")
    /\ \E c, x, y \in Cells :
          /\ ~IsMasked(c) /\ IsMasked(x) /\ ~IsMasked(y)
          /\ x \in Window(c)
          /\ y \notin Window(c)
          /\ ValueAt(y) # ValueAt(c)
          /\ Output.data[c] = Averaged(c)
          /\ Recall(ArrayWith(x, 7), mask) = outcome.res
          /\ Recall(ArrayWith(y, 7), mask).value.data[c] = Output.data[c]
          /\ Recall(ArrayWith(y, 7), mask) # outcome.res

(***************************************************************************)
(* The indices of the window loops (loop family).                          *)
(***************************************************************************)
\* index x lies within an array of the given shape, on every axis
Within(x, shape) ==
    IF Len(shape) = 1 THEN 0 <= x /\ x < shape[1]
    ELSE \A a \in 1 .. Len(shape) : 0 <= x[a] /\ x[a] < shape[a]
\* num / div of the iteration for cell c, summed over the index pairs
OverIndices(f, c) ==
    LET open == {r \in window_indices(f, c) : f.mask.data[r.image] = 0}
        num == SumSet([r \in open |-> f.kernel.data[r.kernel] * f.image.data[r.image]],
                      open)
        div == SumSet([r \in open |-> f.kernel.data[r.kernel]], open)
    IN  IF div = 0 THEN NaN ELSE Div(num, div)

\* C28: in a routine entered with valid arguments (every kernel axis odd),
\* kernels longer than the grid included, every index pair of the window
\* loops lies within the image, the mask and the kernel on every axis; the
\* pair that reads the output cell's own position reads the kernel centre
\* (length // 2 on every axis), and it is among the pairs of every window
\* that is looped over; the cells already written hold num / div over these
\* pairs.
C28_IndicesInBounds ==
    frame # None =>
        \A c \in DOMAIN frame.image.data :
            /\ \A r \in window_indices(frame, c) :
                  /\ Within(r.image, frame.image.shape)
                  /\ Within(r.image, frame.mask.shape)
                  /\ Within(r.kernel, frame.kernel.shape)
                  /\ r.image = c <=> r.kernel = Centre(frame.kernel.shape)
            /\ (frame.op = "convolve" \/ frame.mask.data[c] = 1) =>
                  [image |-> c, kernel |-> Centre(frame.kernel.shape)]
                      \in window_indices(frame, c)
            /\ (c \notin frame.todo
                /\ (frame.op = "convolve" \/ frame.mask.data[c] = 1)) =>
                  frame.result.data[c] = OverIndices(frame, c)

\* a routine under way on a grid with an axis shorter than the kernel: the
\* window of a written cell is cut at both borders and its cell holds a
\* number
C28_Witness ==
    /\ frame # None
    /\ \E a \in 1 .. Len(frame.image.shape) :
          /\ frame.image.shape[a] > 1
          /\ frame.kernel.shape[a] > frame.image.shape[a]
    /\ \E c \in DOMAIN frame.image.data \ frame.todo :
          /\ window_indices(frame, c) = {[image |-> x, kernel |-> Over(x, c)] :
                                            x \in DOMAIN frame.image.data}
          /\ frame.result.data[c] # NaN
          /\ frame.result.data[c] = OverIndices(frame, c)

(***************************************************************************)
(* Constant grids (masked family).                                         *)
(***************************************************************************)
\* every unmasked cell of the array holds v
ConstantWhereUnmasked(v) == \A x \in Cells : ~IsMasked(x) => ValueAt(x) = v

\* C29: when every unmasked cell of the array holds one value v, each
\* output cell of a successful convolve with rescale_kernel=False, and each
\* cell of a successful interpolate's output that was masked, is v or NaN,
\* NaN just where the weights of the unmasked window cells sum to 0.
C29_ConstantsPreserved ==
    outcome # None /\ Raised = None
    /\ (outcome.op = "convolve" => ~outcome.rescale_kernel) =>
        \A v \in OtherVals :
            ConstantWhereUnmasked(v) =>
                \A c \in Cells :
                    Computed(c) =>
                        /\ Output.data[c] \in {Float(v), NaN}
                        /\ Output.data[c] = NaN <=> WeightSum(c) = 0

\* a convolution without rescale under a kernel of unequal weights that do
\* not sum to 1, on a grid whose unmasked cells hold 2 and whose masked cell
\* holds another value: a cell whose window is cut by the border and holds
\* the masked cell and two unmasked cells has the output 2
C29_Witness ==
    /\ Succeeded("convolve") /\ ~outcome.rescale_kernel
    /\ ConstantWhereUnmasked(2)
    /\ KernelSum \notin {0, 1}
    /\ \E a, b \in Idx(kernel.shape) : kernel.data[a] # kernel.data[b]
    /\ \E c, x \in Cells :
          /\ IsMasked(x) /\ ValueAt(x) # 2
          /\ x \in Window(c)
          /\ Cardinality(Contributors(c)) >= 2
          /\ Cardinality(Window(c)) < Cardinality(Idx(kernel.shape))
          /\ Output.data[c] = Float(2)

(***************************************************************************)
(* interpolate applied twice (truthy family).                              *)
(***************************************************************************)
\* the output passed as the array of a second call: a cell that holds an
\* integer is read as it is; a cell that holds NaN or a fraction is given
\* the value v
ReadBack(v) ==
    [Output EXCEPT !.data = [c \in Cells |->
                                IF Output.data[c][2] = 1 THEN Output.data[c][1]
                                ELSE v]]

\* C30: interpolate applied to the output of a successful interpolate, with
\* the same kernel and mask, returns that output again, cell by cell (NaN
\* where it is NaN), whatever stands for the NaN and fractional cells, which
\* are cells with mask value 1; with no mask or a mask of zeros the output
\* has the shape of the array and holds the array's value in every cell.
C30_InterpolateIdempotent ==
    Succeeded("interpolate") =>
        /\ \A c \in Cells : Output.data[c][2] # 1 => MaskAt(c) = 1
        /\ \A v \in OtherVals :
              interpolate_mask(ReadBack(v), kernel, mask, nancast) = Return(Output)
        /\ (\A x \in Cells : MaskAt(x) = 0) =>
              /\ Output.shape = array.shape
              /\ \A c \in Cells : Output.data[c] = Float(ValueAt(c))

\* an interpolation that fills one masked cell with a fraction and one with
\* an integer other than the array's, and returns the same when applied to
\* its output
C30_Witness ==
    /\ Succeeded("interpolate")
    /\ \E c, d \in Cells :
          /\ MaskAt(c) = 1 /\ Output.data[c][2] > 1
          /\ MaskAt(d) = 1 /\ Output.data[d][2] = 1
          /\ Output.data[d] # Float(ValueAt(d))
    /\ interpolate_mask(ReadBack(7), kernel, mask, nancast) = Return(Output)

====
